---- MODULE Spec2Model ----
(***************************************************************************)
(* Moderation-flag engine of src/src/flags.js: Flags.create, Flags.update  *)
(* and Flags.get over the sorted-set / object store they write to.         *)
(* Every await on the store is one step of the calling process.            *)
(***************************************************************************)
EXTENDS Integers, Sequences, FiniteSets, TLC

\* ---------------------------------------------------------------- bounds
MaxFlagId == 2
MaxSeqFlags == 1
MaxClock == 3
MaxUpdates == 3

\* ---------------------------------------------------------------- inputs
Procs == {"p1", "p2"}
Types == {"post", "user", "other"}
FlagTypes == {"post", "user"}
TargetIds == {1, 2}
Uids == {1, 2}
Cids == {1}
Reasons == {"spam"}
FlagIds == 1 .. MaxFlagId

\* undefined / null of a numeric and of a string value
Null == -1
NullS == "null"
\* a key that the changeset does not have
Absent == "absent"

\* the timestamp argument of create: not given, or an epoch value of the past
Timestamps == {Null, 0, 1}

\* Flags._constants.states
states == {"open", "wip", "resolved", "rejected"}
\* state values a caller may send
StateInputs == states \cup {"bogus"}

\* JavaScript truthiness of an optional number (undefined, null and 0 are falsy)
Truthy(n) == n # Null /\ n # 0

\* ------------------------------------------------- external collaborators
\* posts.getPostField(pid, 'uid'): post 1 is owned by user 2, post 2 by a guest (uid 0)
PostUid == [pid \in TargetIds |-> IF pid = 1 THEN 2 ELSE 0]
\* posts.getCidByPid(pid): post 1 is in category 1, post 2 has no category
PostCid == [pid \in TargetIds |-> IF pid = 1 THEN 1 ELSE 0]
\* user.isAdminOrGlobalMod(uid)
AdminsOrGlobalMods == {1}
\* user.isModerator(uid, cid)
IsModerator(uid, cid) == uid = 2 /\ cid = 1

\* ---------------------------------------------------------- sorted sets
\* a sorted set is a set of <<member, score>> with one entry per member
ZAdd(z, score, m) == {e \in z : e[1] # m} \cup {<<m, score>>}
ZRem(z, m) == {e \in z : e[1] # m}
ZIsMember(z, m) == \E e \in z : e[1] = m

\* descending by score (getSortedSetRevRangeWithScores key 0 -1)
RECURSIVE ZRevRange(_)
ZRevRange(z) ==
    IF z = {} THEN <<>>
    ELSE LET top == CHOOSE e \in z : \A f \in z : f[2] <= e[2]
         IN <<top>> \o ZRevRange(z \ {top})

\* db.incrObjectField('global', 'nextFlagId')
IncrObjectField(n) == n + 1

\* ------------------------------------------------------------- the store
EmptyFlag ==
    [flagId |-> Null, type |-> NullS, targetId |-> Null, description |-> NullS,
     uid |-> Null, datetime |-> Null, state |-> NullS, assignee |-> Null]

InitDb ==
    [nextFlagId |-> 0,
     flag |-> [i \in FlagIds |-> EmptyFlag],
     datetime |-> {},
     byReporter |-> [u \in Uids |-> {}],
     byType |-> [t \in FlagTypes |-> {}],
     hash |-> {},
     byTargetUid |-> [u \in Uids |-> {}],
     byCid |-> [c \in Cids |-> {}],
     byPid |-> [i \in TargetIds |-> {}],
     byState |-> [s \in states \cup {NullS} |-> {}],
     byAssignee |-> [u \in Uids |-> {}],
     usersFlags |-> [u \in Uids |-> 0],
     userFlagsField |-> [u \in Uids |-> 0],
     history |-> [i \in FlagIds |-> {}],
     notes |-> [i \in FlagIds |-> {}]]

\* ------------------------------------------------------------ changesets
NoChangeset == [state |-> Absent, assignee |-> Null, datetime |-> Null]
Changesets == [state : StateInputs \cup {Absent}, assignee : Uids \cup {Null},
               datetime : {Null, 1}]
\* changesets of one key: a state, or an assignee
OneKeyChangesets ==
    {cs \in Changesets : /\ cs.datetime = Null
                         /\ (cs.state = Absent) # (cs.assignee = Null)}
\* changesets of the state key, and of the assignee key
StateChangesets == {cs \in OneKeyChangesets : cs.state # Absent}
AssigneeChangesets == {cs \in OneKeyChangesets : cs.assignee # Null}
IsEmptyChangeset(cs) == cs.state = Absent /\ cs.assignee = Null /\ cs.datetime = Null

NoCurrent == [state |-> NullS, assignee |-> Null, type |-> NullS, targetId |-> Null]

\* -------------------------------------------------------------- filters
\* the value of one key of a filter mapping: no such key, a scalar, an array
NoValue == [kind |-> "none", vals |-> <<>>]
Scalar(v) == [kind |-> "scalar", vals |-> <<v>>]
Array(vs) == [kind |-> "array", vals |-> vs]

\* the value of the page and perPage keys: no such key, or its characters
NoRaw == [has |-> FALSE, text |-> <<>>]
Raw(text) == [has |-> TRUE, text |-> text]

NoFilters ==
    [type |-> NoValue, state |-> NoValue, quick |-> NoValue, foo |-> NoValue,
     page |-> NoRaw, perPage |-> NoRaw]

\* what the collaborators of validate answer: the target is missing, live or
\* deleted, the reporter is missing, has no userslug, is banned or is neither,
\* canEdit, reputation:disabled, and reputation < min:rep:flag
NoWorld ==
    [target |-> "missing", reporter |-> "missing", canEdit |-> FALSE,
     repDisabled |-> FALSE, lowRep |-> FALSE]
Worlds ==
    [target : {"missing", "live", "deleted"},
     reporter : {"missing", "noslug", "banned", "ok"},
     canEdit : BOOLEAN, repDisabled : BOOLEAN, lowRep : BOOLEAN]

\* ------------------------------------------------------------- processes
IdleCall ==
    [op |-> "none", type |-> NullS, id |-> Null, uid |-> Null, reason |-> NullS,
     timestampArg |-> Null, timestamp |-> Null, doHistoryAppend |-> FALSE,
     flagExists |-> FALSE, targetExists |-> FALSE, canFlag |-> FALSE,
     targetUid |-> Null, targetCid |-> Null, flagId |-> Null,
     changesetArg |-> NoChangeset, changeset |-> NoChangeset,
     current |-> NoCurrent, now |-> Null,
     pend |-> {}, setData |-> NoChangeset,
     histPayload |-> <<Null, [state |-> Absent, assignee |-> Null], Null>>,
     hookFired |-> FALSE, notified |-> {}, failed |-> {}, note |-> NullS,
     base |-> EmptyFlag, history |-> <<>>, notes |-> <<>>,
     world |-> NoWorld,
     filters |-> NoFilters, page |-> 0, perPage |-> 0,
     sets |-> <<>>, orSets |-> <<>>, warned |-> <<>>,
     candidates |-> <<>>, flagIds |-> <<>>, pageCount |-> 0,
     hydrate |-> {}, objs |-> <<>>, flags |-> <<>>,
     seen |-> {}, err |-> NullS]

VARIABLES
    db,       \* the store: flag objects, sorted sets and the flag-id counter
    pc,       \* position of each call
    call,     \* arguments and locals of each call
    clock,    \* Date.now()
    issued,   \* flag ids returned by incrObjectField, in order
    completed, \* flag ids of the creates that have returned
    updates,  \* number of update and appendNote calls made by callers
    quota,    \* number of flags the callers may create in this run
    pre       \* store at the start of the running call (non-overlapping calls)

vars == <<db, pc, call, clock, issued, completed, updates, quota, pre>>

\* the empty store, no call running
Start ==
    /\ db = InitDb
    /\ pc = [p \in Procs |-> "idle"]
    /\ call = [p \in Procs |-> IdleCall]
    /\ clock = 2
    /\ issued = <<>>
    /\ completed = {}
    /\ updates = 0
    /\ pre = InitDb

\* one caller
Init == Start /\ quota = MaxSeqFlags

\* several callers
ConcInit == Start /\ quota = MaxFlagId

\* ------------------------------------------------------------ Flags.create
\* [type, id, uid].join(':')
HashKey(type, id, uid) == <<type, id, uid>>

\* Flags.exists looking the key up with id and uid swapped
Exists_SwappedKey(d, type, id, uid) == ZIsMember(d.hash, HashKey(type, uid, id))

\* Flags.exists
Exists(d, type, id, uid) == ZIsMember(d.hash, HashKey(type, id, uid))

\* Flags.getTargetUid
GetTargetUid(type, id) == IF type = "post" THEN PostUid[id] ELSE id

\* Flags.getTargetCid
GetTargetCid(type, id) == IF type = "post" THEN PostCid[id] ELSE Null

\* the error chain testing the target before the duplicate
CreateError_TargetFirst(flagExists, targetExists, canFlag) ==
    IF ~targetExists THEN "invalid-data"
    ELSE IF flagExists THEN "already-flagged"
    ELSE IF ~canFlag THEN "no-privileges"
    ELSE NullS

\* the if / else-if chain that follows the concurrent pre-checks
CreateError(flagExists, targetExists, canFlag) ==
    IF flagExists THEN "already-flagged"
    ELSE IF ~targetExists THEN "invalid-data"
    ELSE IF ~canFlag THEN "no-privileges"
    ELSE NullS

\* the error chain without its throw: create goes on to the counter
AfterCheck_NoThrow(err) == "c_incr"

\* lines 263-270: an error is thrown, or create goes on to the counter
AfterCheck(err) == IF err = NullS THEN "c_incr" ELSE "done"

\* the three reads of Flags.get
GetReads == {"getObject", "getHistory", "getNotes"}

\* locals on entry to the next await of create
Enter(c, next) ==
    IF next = "u_read" THEN [c EXCEPT !.changeset = [NoChangeset EXCEPT !.state = "open"]]
    ELSE IF next = "g_reads" THEN [c EXCEPT !.pend = GetReads]
    ELSE c

\* create without its closing update
AfterPost_NoUpdate(c) == "g_reads"

\* where create continues after each of its awaits
AfterPost(c) == IF c.doHistoryAppend THEN "u_read" ELSE "g_reads"
AfterByCid(c) == IF c.type = "post" THEN "c_byPid" ELSE AfterPost(c)
AfterByTargetUid(c) == IF Truthy(c.targetCid) THEN "c_byCid" ELSE AfterByCid(c)
\* create indexing the target owner of posts only
AfterHash_PostsOnly(c) ==
    IF Truthy(c.targetUid) /\ c.type = "post" THEN "c_byTargetUid" ELSE AfterByTargetUid(c)
AfterHash(c) == IF Truthy(c.targetUid) THEN "c_byTargetUid" ELSE AfterByTargetUid(c)
\* create leaving the aggregate counters of the target owner alone
AfterByPid_NoCounters(c) == AfterPost(c)
AfterByPid(c) == IF Truthy(c.targetUid) THEN "c_usersFlags" ELSE AfterPost(c)

\* creates that passed their checks and have not incremented the counter yet
PendingCreates == {q \in Procs : pc[q] = "c_incr"}

Goto(p, next) ==
    /\ pc' = [pc EXCEPT ![p] = next]
    /\ call' = [call EXCEPT ![p] = Enter(call[p], next)]

\* lines 248-253: the call, up to the first await
CreateBegin(p, type, id, uid, reason, timestamp) ==
    /\ pc[p] = "idle"
    /\ pc' = [pc EXCEPT ![p] = "c_check"]
    /\ call' = [call EXCEPT ![p] =
            [IdleCall EXCEPT !.op = "create", !.type = type, !.id = id, !.uid = uid,
                !.reason = reason, !.timestampArg = timestamp,
                !.timestamp = IF Truthy(timestamp) THEN timestamp ELSE clock,
                !.doHistoryAppend = ~Truthy(timestamp),
                !.seen = completed]]
    /\ UNCHANGED <<db, clock, issued, completed, updates, quota>>

\* lines 254-269: the five concurrent pre-checks and the error chain.
\* posts.exists / user.exists and privileges.posts.can answer either way;
\* for a type other than post and user targetExists and canFlag throw.
CreateCheck(p) ==
    /\ pc[p] = "c_check"
    /\ \E exists \in BOOLEAN, canRead \in BOOLEAN :
        LET c == call[p]
            flagExists == Exists(db, c.type, c.id, c.uid)
            targetExists == c.type \in FlagTypes /\ exists
            canFlag == c.type = "user" \/ (c.type = "post" /\ canRead)
            err == IF c.type \notin FlagTypes THEN "invalid-data"
                   ELSE CreateError(flagExists, targetExists, canFlag)
        IN /\ call' = [call EXCEPT ![p] =
                    [c EXCEPT !.flagExists = flagExists, !.targetExists = targetExists,
                        !.canFlag = canFlag,
                        !.targetUid = GetTargetUid(c.type, c.id),
                        !.targetCid = GetTargetCid(c.type, c.id),
                        !.err = err]]
           /\ AfterCheck(err) = "c_incr" =>
                    db.nextFlagId + Cardinality(PendingCreates) < quota
           /\ pc' = [pc EXCEPT ![p] = AfterCheck(err)]
    /\ UNCHANGED <<db, clock, issued, completed, updates, quota, pre>>

\* the id taken as the number of flags in the dedup set plus one
CreateIncr_CountsFlags(p) ==
    /\ pc[p] = "c_incr"
    /\ LET flagId == Cardinality(db.hash) + 1
       IN /\ db' = [db EXCEPT !.nextFlagId = IncrObjectField(@)]
          /\ call' = [call EXCEPT ![p].flagId = flagId]
          /\ issued' = Append(issued, flagId)
    /\ pc' = [pc EXCEPT ![p] = "c_setObject"]
    /\ UNCHANGED <<clock, completed, updates, quota, pre>>

\* line 270
CreateIncr(p) ==
    /\ pc[p] = "c_incr"
    /\ LET flagId == IncrObjectField(db.nextFlagId)
       IN /\ db' = [db EXCEPT !.nextFlagId = flagId]
          /\ call' = [call EXCEPT ![p].flagId = flagId]
          /\ issued' = Append(issued, flagId)
    /\ pc' = [pc EXCEPT ![p] = "c_setObject"]
    /\ UNCHANGED <<clock, completed, updates, quota, pre>>

\* a create that goes on to the indices without writing the record
CreateSetObject_WritesNothing(p) ==
    /\ pc[p] = "c_setObject"
    /\ pc' = [pc EXCEPT ![p] = "c_datetime"]
    /\ UNCHANGED <<db, call, clock, issued, completed, updates, quota, pre>>

\* lines 272-279
CreateSetObject(p) ==
    /\ pc[p] = "c_setObject"
    /\ LET c == call[p]
       IN db' = [db EXCEPT !.flag[c.flagId] =
                    [@ EXCEPT !.flagId = c.flagId, !.type = c.type, !.targetId = c.id,
                        !.description = c.reason, !.uid = c.uid,
                        !.datetime = c.timestamp]]
    /\ pc' = [pc EXCEPT ![p] = "c_datetime"]
    /\ UNCHANGED <<call, clock, issued, completed, updates, quota, pre>>

\* line 280
CreateDatetime(p) ==
    /\ pc[p] = "c_datetime"
    /\ db' = [db EXCEPT !.datetime = ZAdd(@, call[p].timestamp, call[p].flagId)]
    /\ pc' = [pc EXCEPT ![p] = "c_byReporter"]
    /\ UNCHANGED <<call, clock, issued, completed, updates, quota, pre>>

\* line 281
CreateByReporter(p) ==
    /\ pc[p] = "c_byReporter"
    /\ db' = [db EXCEPT !.byReporter[call[p].uid] =
                ZAdd(@, call[p].timestamp, call[p].flagId)]
    /\ pc' = [pc EXCEPT ![p] = "c_byType"]
    /\ UNCHANGED <<call, clock, issued, completed, updates, quota, pre>>

\* line 282
CreateByType(p) ==
    /\ pc[p] = "c_byType"
    /\ db' = [db EXCEPT !.byType[call[p].type] =
                ZAdd(@, call[p].timestamp, call[p].flagId)]
    /\ pc' = [pc EXCEPT ![p] = "c_hash"]
    /\ UNCHANGED <<call, clock, issued, completed, updates, quota, pre>>

\* lines 283-284 (analytics.increment keeps a counter outside the store)
CreateHash(p) ==
    /\ pc[p] = "c_hash"
    /\ LET c == call[p]
       IN db' = [db EXCEPT !.hash = ZAdd(@, c.flagId, HashKey(c.type, c.id, c.uid))]
    /\ Goto(p, AfterHash(call[p]))
    /\ UNCHANGED <<clock, issued, completed, updates, quota, pre>>

\* lines 286-288
CreateByTargetUid(p) ==
    /\ pc[p] = "c_byTargetUid"
    /\ db' = [db EXCEPT !.byTargetUid[call[p].targetUid] =
                ZAdd(@, call[p].timestamp, call[p].flagId)]
    /\ Goto(p, AfterByTargetUid(call[p]))
    /\ UNCHANGED <<clock, issued, completed, updates, quota, pre>>

\* lines 290-292
CreateByCid(p) ==
    /\ pc[p] = "c_byCid"
    /\ db' = [db EXCEPT !.byCid[call[p].targetCid] =
                ZAdd(@, call[p].timestamp, call[p].flagId)]
    /\ Goto(p, AfterByCid(call[p]))
    /\ UNCHANGED <<clock, issued, completed, updates, quota, pre>>

\* lines 294-295
CreateByPid(p) ==
    /\ pc[p] = "c_byPid"
    /\ db' = [db EXCEPT !.byPid[call[p].id] =
                ZAdd(@, call[p].timestamp, call[p].flagId)]
    /\ Goto(p, AfterByPid(call[p]))
    /\ UNCHANGED <<clock, issued, completed, updates, quota, pre>>

\* line 297
CreateUsersFlags(p) ==
    /\ pc[p] = "c_usersFlags"
    /\ db' = [db EXCEPT !.usersFlags[call[p].targetUid] = @ + 1]
    /\ pc' = [pc EXCEPT ![p] = "c_userField"]
    /\ UNCHANGED <<call, clock, issued, completed, updates, quota, pre>>

\* line 298
CreateUserField(p) ==
    /\ pc[p] = "c_userField"
    /\ db' = [db EXCEPT !.userFlagsField[call[p].targetUid] = @ + 1]
    /\ Goto(p, AfterPost(call[p]))
    /\ UNCHANGED <<clock, issued, completed, updates, quota, pre>>

\* lines 297-298: the awaited increment rejects, and create with it
CounterFails(p) ==
    /\ pc[p] \in {"c_usersFlags", "c_userField"}
    /\ pc' = [pc EXCEPT ![p] = "done"]
    /\ call' = [call EXCEPT ![p] =
            [@ EXCEPT !.err = "db-error",
                      !.failed = {IF pc[p] = "c_usersFlags" THEN "sortedSetIncrBy"
                                  ELSE "incrementUserFieldBy"}]]
    /\ UNCHANGED <<db, clock, issued, completed, updates, quota, pre>>

\* ------------------------------------------------------------ Flags.update
\* the loop without the comparison of line 397
StateKept_NoComparison(current, cs) ==
    /\ cs.state # Absent
    /\ cs.state \in states

\* the loop refusing to leave a closed state
StateKept_ClosedIsFinal(current, cs) ==
    /\ cs.state # Absent
    /\ current.state # cs.state
    /\ cs.state \in states
    /\ current.state \notin {"resolved", "rejected"}

\* the loop without the validity test of line 400
StateKept_AnyValue(current, cs) ==
    /\ cs.state # Absent
    /\ current.state # cs.state

\* the loop comparing every requested state but open with the stored one
StateKept_OpenAlwaysKept(current, cs) ==
    /\ cs.state # Absent
    /\ current.state # cs.state \/ cs.state = "open"
    /\ cs.state \in states

\* lines 397-405: the state key stays in the changeset
StateKept(current, cs) ==
    /\ cs.state # Absent
    /\ current.state # cs.state
    /\ cs.state \in states

\* isAssignable asking for the category moderators of flags of any type
IsAssignable_AnyType(assigneeId, current) ==
    \/ assigneeId \in AdminsOrGlobalMods
    \/ IsModerator(assigneeId, PostCid[current.targetId])

\* lines 380-391
IsAssignable(assigneeId, current) ==
    \/ assigneeId \in AdminsOrGlobalMods
    \/ /\ current.type = "post"
       /\ IsModerator(assigneeId, PostCid[current.targetId])

\* notifyAssignee returning before it creates a notice only for a missing assignee
NotifySkipped_SelfIncluded(uid, assigneeId) == assigneeId = Null

\* line 367: notifyAssignee returns before it creates a notice
NotifySkipped(uid, assigneeId) == assigneeId = Null \/ uid = assigneeId

\* where the caller of update continues: create goes on to Flags.get unless
\* the update it awaited was rejected
AfterUpdate(c) == IF c.op = "create" /\ c.err = NullS THEN "g_reads" ELSE "done"

\* update without the early return of lines 418-420
UFinish_NoEarlyReturn(c, cs, tasks, time) ==
    [next |-> "u_tasks",
     call |-> [c EXCEPT
            !.changeset = [cs EXCEPT !.datetime = Null],
            !.setData = cs,
            !.histPayload = <<c.uid, [state |-> cs.state, assignee |-> cs.assignee],
                              IF Truthy(cs.datetime) THEN cs.datetime ELSE time>>,
            !.hookFired = TRUE,
            !.pend = tasks \cup {"setObject", "appendHistory"}]]

\* lines 418-424 and 455-459: the early return, or the last three tasks.
\* setObject is handed the changeset before appendHistory deletes its datetime.
UFinish(c, cs, tasks, time) ==
    IF IsEmptyChangeset(cs)
    THEN [next |-> AfterUpdate(c),
          call |-> Enter([c EXCEPT !.changeset = cs, !.pend = tasks], AfterUpdate(c))]
    ELSE [next |-> "u_tasks",
          call |-> [c EXCEPT
                !.changeset = [cs EXCEPT !.datetime = Null],
                !.setData = cs,
                !.histPayload = <<c.uid, [state |-> cs.state, assignee |-> cs.assignee],
                                  IF Truthy(cs.datetime) THEN cs.datetime ELSE time>>,
                !.hookFired = TRUE,
                !.pend = tasks \cup {"setObject", "appendHistory"}]]

\* the call, up to the await of line 364
UpdateBegin(p, flagId, uid, cs) ==
    /\ pc[p] = "idle"
    /\ updates < MaxUpdates
    /\ updates' = updates + 1
    /\ pc' = [pc EXCEPT ![p] = "u_read"]
    /\ call' = [call EXCEPT ![p] =
            [IdleCall EXCEPT !.op = "update", !.flagId = flagId, !.uid = uid,
                !.changesetArg = cs, !.changeset = cs]]
    /\ UNCHANGED <<db, clock, issued, completed, quota>>

\* lines 364-365 and the loop of lines 395-416 up to its first await
UpdateRead(p) ==
    /\ pc[p] = "u_read"
    /\ LET c == call[p]
           rec == db.flag[c.flagId]
           cs == c.changeset
           current == [state |-> rec.state, assignee |-> rec.assignee,
                       type |-> rec.type, targetId |-> rec.targetId]
           now == IF Truthy(cs.datetime) THEN cs.datetime ELSE clock
           keep == StateKept(current, cs)
           cs1 == IF keep THEN cs ELSE [cs EXCEPT !.state = Absent]
           tasks == IF keep THEN {"addState", "remState"} ELSE {}
           c1 == [c EXCEPT !.current = current, !.now = now]
           fin == IF cs1.assignee = Null THEN UFinish(c1, cs1, tasks, clock)
                  ELSE IF current.assignee = cs1.assignee
                       THEN UFinish(c1, [cs1 EXCEPT !.assignee = Null], tasks, clock)
                  ELSE [next |-> "u_assignable",
                        call |-> [c1 EXCEPT !.changeset = cs1, !.pend = tasks]]
       IN /\ pc' = [pc EXCEPT ![p] = fin.next]
          /\ call' = [call EXCEPT ![p] = fin.call]
    /\ UNCHANGED <<db, clock, issued, completed, updates, quota, pre>>

\* lines 408-413: isAssignable returns; the loop and lines 418-424 follow
UpdateAssignable(p) ==
    /\ pc[p] = "u_assignable"
    /\ LET c == call[p]
           cs == c.changeset
           allowed == IsAssignable(cs.assignee, c.current)
           cs1 == IF allowed THEN cs ELSE [cs EXCEPT !.assignee = Null]
           tasks == c.pend \cup
                    (IF allowed THEN {"addAssignee"} ELSE {}) \cup
                    (IF allowed /\ ~NotifySkipped(c.uid, cs.assignee) THEN {"notify"} ELSE {})
           fin == UFinish(c, cs1, tasks, clock)
       IN /\ pc' = [pc EXCEPT ![p] = fin.next]
          /\ call' = [call EXCEPT ![p] = fin.call]
    /\ UNCHANGED <<db, clock, issued, completed, updates, quota, pre>>

\* a setObject that replaces the record by the keys it is given
SetObject_Replaces(rec, data) ==
    [EmptyFlag EXCEPT !.state = data.state, !.assignee = data.assignee,
                      !.datetime = data.datetime]

\* db.setObject('flag:' + flagId, changeset): the keys of the changeset are merged
SetObject(rec, data) ==
    [rec EXCEPT
        !.state = IF data.state # Absent THEN data.state ELSE @,
        !.assignee = IF data.assignee # Null THEN data.assignee ELSE @,
        !.datetime = IF data.datetime # Null THEN data.datetime ELSE @]

\* the tasks with an assignee index that keeps the current assignee only
TaskEffect_ExclusiveAssignee(d, c, t) ==
    IF t = "addState"
    THEN [d EXCEPT !.byState[c.changeset.state] = ZAdd(@, c.now, c.flagId)]
    ELSE IF t = "remState"
    THEN [d EXCEPT !.byState[c.current.state] = ZRem(@, c.flagId)]
    ELSE IF t = "addAssignee"
    THEN [d EXCEPT !.byAssignee =
            [u \in Uids |-> IF u = c.changeset.assignee
                            THEN ZAdd(d.byAssignee[u], c.now, c.flagId)
                            ELSE ZRem(d.byAssignee[u], c.flagId)]]
    ELSE IF t = "setObject"
    THEN [d EXCEPT !.flag[c.flagId] = SetObject(@, c.setData)]
    ELSE IF t = "appendHistory"
    THEN [d EXCEPT !.history[c.flagId] = ZAdd(@, c.histPayload[3], c.histPayload)]
    ELSE d

\* the store after one of the tasks of lines 403-423 has run
TaskEffect(d, c, t) ==
    IF t = "addState"
    THEN [d EXCEPT !.byState[c.changeset.state] = ZAdd(@, c.now, c.flagId)]
    ELSE IF t = "remState"
    THEN [d EXCEPT !.byState[c.current.state] = ZRem(@, c.flagId)]
    ELSE IF t = "addAssignee"
    THEN [d EXCEPT !.byAssignee[c.changeset.assignee] = ZAdd(@, c.now, c.flagId)]
    ELSE IF t = "setObject"
    THEN [d EXCEPT !.flag[c.flagId] = SetObject(@, c.setData)]
    ELSE IF t = "appendHistory"
    THEN [d EXCEPT !.history[c.flagId] = ZAdd(@, c.histPayload[3], c.histPayload)]
    ELSE d

\* one of the pending tasks completes; Promise.all returns after the last one
UpdateTask(p, t) ==
    /\ pc[p] \in {"u_assignable", "u_tasks"}
    /\ t \in call[p].pend
    /\ db' = TaskEffect(db, call[p], t)
    /\ LET c == call[p]
           c1 == [c EXCEPT !.pend = @ \ {t},
                           !.notified = IF t = "notify" THEN @ \cup {c.changeset.assignee}
                                        ELSE @]
           last == pc[p] = "u_tasks" /\ c1.pend = {}
           next == IF last THEN AfterUpdate(c) ELSE pc[p]
       IN /\ pc' = [pc EXCEPT ![p] = next]
          /\ call' = [call EXCEPT ![p] = Enter(c1, next)]
    /\ UNCHANGED <<clock, issued, completed, updates, quota, pre>>

\* the tasks of line 425 whose rejection the callers are told about
CriticalTasks == {"setObject", "appendHistory"}
FailableTasks == CriticalTasks \cup {"notify"}

\* the error a rejected task raises
TaskError(t) == IF t = "notify" THEN "notify-error" ELSE "db-error"

\* one of the pending tasks is rejected: it has no effect, Promise.all of line
\* 425 rejects with the first error, and the store commands of the other tasks,
\* already sent, still run
TaskFails(p, t) ==
    /\ pc[p] = "u_tasks"
    /\ t \in call[p].pend \cap FailableTasks
    /\ LET c == call[p]
           c1 == [c EXCEPT !.pend = @ \ {t},
                           !.failed = @ \cup {t},
                           !.err = IF @ = NullS THEN TaskError(t) ELSE @]
           next == IF c1.pend = {} THEN AfterUpdate(c1) ELSE pc[p]
       IN /\ pc' = [pc EXCEPT ![p] = next]
          /\ call' = [call EXCEPT ![p] = Enter(c1, next)]
    /\ UNCHANGED <<db, clock, issued, completed, updates, quota, pre>>

\* ------------------------------------------------------------ Flags.validate
\* lines 323-338: what getTarget returns for a user or a post; the object of a
\* missing target is {}
GetTarget(type, target) == [isNull |-> FALSE, deleted |-> target = "deleted"]

\* lines 197-210, with the throw of line 337 for another type
ValidateError(type, world) ==
    IF type \notin FlagTypes THEN "invalid-data"
    ELSE LET target == GetTarget(type, world.target)
         IN IF target.isNull THEN "invalid-data"
            ELSE IF target.deleted THEN "post-deleted"
            ELSE IF world.reporter \in {"missing", "noslug"} THEN "no-user"
            ELSE IF world.reporter = "banned" THEN "user-banned"
            ELSE NullS

\* lines 214 and 219
ReputationError(world) ==
    IF ~world.canEdit /\ ~world.repDisabled /\ world.lowRep
    THEN "not-enough-reputation-to-flag" ELSE NullS

\* line 196: the call, up to the await of line 197
ValidateBegin(p, type, id, uid, world) ==
    /\ pc[p] = "idle"
    /\ pc' = [pc EXCEPT ![p] = "v_reads"]
    /\ call' = [call EXCEPT ![p] =
            [IdleCall EXCEPT !.op = "validate", !.type = type, !.id = id, !.uid = uid,
                !.world = world]]
    /\ UNCHANGED <<db, clock, issued, completed, updates, quota>>

\* lines 197-212: the target and the reporter arrive
ValidateReads(p) ==
    /\ pc[p] = "v_reads"
    /\ LET err == ValidateError(call[p].type, call[p].world)
       IN /\ pc' = [pc EXCEPT ![p] = IF err = NullS THEN "v_canEdit" ELSE "done"]
          /\ call' = [call EXCEPT ![p] = [@ EXCEPT !.err = err]]
    /\ UNCHANGED <<db, clock, issued, completed, updates, quota, pre>>

\* lines 213-221: canEdit answers
ValidateCanEdit(p) ==
    /\ pc[p] = "v_canEdit"
    /\ pc' = [pc EXCEPT ![p] = "done"]
    /\ call' = [call EXCEPT ![p] = [@ EXCEPT !.err = ReputationError(call[p].world)]]
    /\ UNCHANGED <<db, clock, issued, completed, updates, quota, pre>>

\* ---------------------------------------------------------- Flags.appendNote
\* the texts of the notes
Notes == {"n1", "n2"}

\* the member of the notes sorted set: JSON.stringify([uid, note])
NotePayload(uid, note, datetime) == <<uid, note>>

\* the changeset appendNote hands to appendHistory, without its datetime
NoteChangeset == [state |-> Absent, assignee |-> Null, notes |-> NullS]

\* line 463: the call, up to its first await
AppendNoteBegin(p, flagId, uid, note, datetime) ==
    /\ pc[p] = "idle"
    /\ updates < MaxUpdates
    /\ updates' = updates + 1
    /\ pc' = [pc EXCEPT ![p] = "n_add"]
    /\ call' = [call EXCEPT ![p] =
            [IdleCall EXCEPT !.op = "appendNote", !.flagId = flagId, !.uid = uid,
                !.note = note,
                !.now = IF Truthy(datetime) THEN datetime ELSE clock]]
    /\ UNCHANGED <<db, clock, issued, completed, quota>>

\* lines 464-465
NoteAdd(p) ==
    /\ pc[p] = "n_add"
    /\ db' = [db EXCEPT !.notes[call[p].flagId] =
            ZAdd(@, call[p].now, NotePayload(call[p].uid, call[p].note, call[p].now))]
    /\ pc' = [pc EXCEPT ![p] = "n_history"]
    /\ UNCHANGED <<call, clock, issued, completed, updates, quota, pre>>

\* lines 466-469 and 455-459: the history entry of the note
NoteHistory(p) ==
    /\ pc[p] = "n_history"
    /\ db' = [db EXCEPT !.history[call[p].flagId] =
            ZAdd(@, call[p].now, <<call[p].uid, NoteChangeset, call[p].now>>)]
    /\ pc' = [pc EXCEPT ![p] = "done"]
    /\ UNCHANGED <<call, clock, issued, completed, updates, quota, pre>>

\* lines 227-239: what getNotes returns for the notes sorted set, newest first
GetNotes(z) ==
    LET range == ZRevRange(z)
    IN [k \in 1 .. Len(range) |->
            [uid |-> range[k][1][1], content |-> range[k][1][2], datetime |-> range[k][2]]]

\* --------------------------------------------------------------- Flags.get
\* lines 86-91: the call, up to the three reads
GetBegin(p, flagId) ==
    /\ pc[p] = "idle"
    /\ pc' = [pc EXCEPT ![p] = "g_reads"]
    /\ call' = [call EXCEPT ![p] =
            [IdleCall EXCEPT !.op = "get", !.flagId = flagId, !.pend = GetReads]]
    /\ UNCHANGED <<db, clock, issued, completed, updates, quota, pre>>

\* one of the three reads of lines 87-91 returns
GetRead(p, t) ==
    /\ pc[p] = "g_reads"
    /\ t \in call[p].pend
    /\ LET c == call[p]
           c1 == [c EXCEPT !.pend = @ \ {t},
                    !.base = IF t = "getObject" THEN db.flag[c.flagId] ELSE @,
                    !.history = IF t = "getHistory" THEN ZRevRange(db.history[c.flagId])
                                ELSE @,
                    !.notes = IF t = "getNotes" THEN ZRevRange(db.notes[c.flagId]) ELSE @]
           last == c1.pend = {}
       IN /\ pc' = [pc EXCEPT ![p] = IF last THEN "done" ELSE "g_reads"]
          /\ call' = [call EXCEPT ![p] = c1]
          /\ completed' = IF last /\ c.op = "create" THEN completed \cup {c.flagId}
                          ELSE completed
    /\ UNCHANGED <<db, clock, issued, updates, quota, pre>>

\* '[[flags:state-' + changeset.state + ']]'
StateLabel(s) == "[[flags:state-" \o s \o "]]"

\* lines 432-449: one entry of getHistory
HistoryEntry(e) ==
    [uid |-> e[1][1],
     fields |-> [e[1][2] EXCEPT !.state = IF @ = Absent THEN Absent ELSE StateLabel(@)],
     datetime |-> e[2]]

\* lines 92-115: what get returns from the three reads
GetView(c) ==
    [found |-> c.base # EmptyFlag,
     state |-> IF c.base.state = NullS THEN "open" ELSE c.base.state,
     flagId |-> c.base.flagId,
     datetime |-> c.base.datetime,
     history |-> [i \in 1 .. Len(c.history) |-> HistoryEntry(c.history[i])]]

\* --------------------------------------------------------------- Flags.list
\* lines 53-55 and 137-141: the flag ids of a list whose only filter is an
\* assignee, newest first
ListByAssignee(d, a) ==
    LET range == ZRevRange(d.byAssignee[a])
    IN [k \in 1 .. Len(range) |-> range[k][1]]

\* parseInt(text, 10): an optional sign, then the leading digits
DigitChars == <<"0", "1", "2", "3", "4", "5", "6", "7", "8", "9">>
IsDigit(ch) == \E k \in 1 .. Len(DigitChars) : DigitChars[k] = ch
DigitValue(ch) == (CHOOSE k \in 1 .. Len(DigitChars) : DigitChars[k] = ch) - 1

RECURSIVE LeadingDigits(_, _)
LeadingDigits(text, acc) ==
    IF text = <<>> \/ ~IsDigit(Head(text)) THEN acc
    ELSE LeadingDigits(Tail(text), 10 * acc + DigitValue(Head(text)))

NaN == [nan |-> TRUE, n |-> 0]
Number(n) == [nan |-> FALSE, n |-> n]

ParseInt(text) ==
    LET signed == text # <<>> /\ Head(text) \in {"-", "+"}
        body == IF signed THEN Tail(text) ELSE text
    IN IF body = <<>> \/ ~IsDigit(Head(body)) THEN NaN
       ELSE Number((IF Head(text) = "-" THEN -1 ELSE 1) * LeadingDigits(body, 0))

\* v || d for a parsed number: NaN and 0 are falsy
OrElse(v, d) == IF v.nan \/ v.n = 0 THEN d ELSE v.n

\* Math.abs
Abs(n) == IF n < 0 THEN -n ELSE n

\* lines 125 and 126
EffectivePage(raw) == IF raw.has THEN Abs(OrElse(ParseInt(raw.text), 1)) ELSE 1
EffectivePerPage(raw) == IF raw.has THEN Abs(OrElse(ParseInt(raw.text), 20)) ELSE 20

\* line 158, on the number line 126 has stored
FlagsPerPage(perPage) == Abs(OrElse(Number(perPage), 1))

\* a page count that drops the last, partial page
CeilDiv_Floor(a, b) == a \div b

\* Math.ceil(a / b) for a >= 0 and b > 0
CeilDiv(a, b) == (a + b - 1) \div b

\* Array.prototype.slice(start, end) for 0 <= start
Slice(s, start, end) ==
    SubSeq(s, start + 1, IF end < Len(s) THEN end ELSE Len(s))

\* lines 158-160
Paginate(flagIds, page, perPage) ==
    LET flagsPerPage == FlagsPerPage(perPage)
    IN [pageCount |-> CeilDiv(Len(flagIds), flagsPerPage),
        flagIds |-> Slice(flagIds, (page - 1) * flagsPerPage, page * flagsPerPage)]

\* the names the filter mappings of the callers may hold, in their order;
\* "foo" is a name without a handler
FilterNames == <<"type", "state", "quick", "foo">>

\* the names of Flags._filters
Handlers ==
    {"type", "state", "reporterId", "assignee", "targetUid", "cid", "page",
     "perPage", "quick"}

\* the prefixes of lines 44-61
Prefix(name) == "flags:by" \o (IF name = "type" THEN "Type"
                               ELSE IF name = "state" THEN "State"
                               ELSE IF name = "reporterId" THEN "Reporter"
                               ELSE IF name = "assignee" THEN "Assignee"
                               ELSE IF name = "targetUid" THEN "TargetUid"
                               ELSE "Cid") \o ":"

\* 'prefix' + uid
UidString(uid) == DigitChars[uid + 1]

EmptyPlan == [sets |-> <<>>, orSets |-> <<>>, warned |-> <<>>]

\* lines 34-40
PrepareSets(plan, prefix, value) ==
    IF value.kind # "array"
    THEN [plan EXCEPT !.sets = Append(@, prefix \o value.vals[1])]
    ELSE IF Len(value.vals) > 0
    THEN [plan EXCEPT !.orSets =
            @ \o [k \in 1 .. Len(value.vals) |-> prefix \o value.vals[k]]]
    ELSE plan

\* a loop that takes a name without a handler for one more index
ApplyFilter_UnknownIsIndex(plan, name, value, uid) ==
    IF name = "quick"
    THEN IF value = Scalar("mine")
         THEN [plan EXCEPT !.sets = Append(@, "flags:byAssignee:" \o UidString(uid))]
         ELSE plan
    ELSE IF name \in {"page", "perPage"} THEN plan
    ELSE PrepareSets(plan, "flags:by" \o name \o ":", value)

\* a quick handler that takes every value for mine
ApplyFilter_AnyQuickIsMine(plan, name, value, uid) ==
    IF name \notin Handlers THEN [plan EXCEPT !.warned = Append(@, name)]
    ELSE IF name = "quick"
    THEN [plan EXCEPT !.sets = Append(@, "flags:byAssignee:" \o UidString(uid))]
    ELSE IF name \in {"page", "perPage"} THEN plan
    ELSE PrepareSets(plan, Prefix(name), value)

\* lines 130-134, and the handlers of lines 44-70
ApplyFilter(plan, name, value, uid) ==
    IF name \notin Handlers THEN [plan EXCEPT !.warned = Append(@, name)]
    ELSE IF name = "quick"
    THEN IF value = Scalar("mine")
         THEN [plan EXCEPT !.sets = Append(@, "flags:byAssignee:" \o UidString(uid))]
         ELSE plan
    ELSE IF name \in {"page", "perPage"} THEN plan
    ELSE PrepareSets(plan, Prefix(name), value)

\* lines 128-136: the loop over the keys of the mapping, from the k-th on
RECURSIVE PlanFrom(_, _, _, _)
PlanFrom(k, filters, uid, plan) ==
    IF k > Len(FilterNames) THEN plan
    ELSE LET name == FilterNames[k]
         IN PlanFrom(k + 1, filters, uid,
                IF filters[name].kind # "none"
                THEN ApplyFilter(plan, name, filters[name], uid)
                ELSE plan)

\* lines 121-137
Plan(filters, uid) ==
    LET plan == PlanFrom(1, filters, uid, EmptyPlan)
    IN [plan EXCEPT !.sets = IF Len(plan.sets) > 0 \/ Len(plan.orSets) > 0 THEN @
                             ELSE <<"flags:datetime">>]

\* the sorted set stored under a key; a key nothing was added to is empty
Index(d, key) ==
    IF key = "flags:datetime" THEN d.datetime
    ELSE IF \E t \in FlagTypes : key = "flags:byType:" \o t
    THEN d.byType[CHOOSE t \in FlagTypes : key = "flags:byType:" \o t]
    ELSE IF \E st \in states : key = "flags:byState:" \o st
    THEN d.byState[CHOOSE st \in states : key = "flags:byState:" \o st]
    ELSE IF \E u \in Uids : key = "flags:byAssignee:" \o UidString(u)
    THEN d.byAssignee[CHOOSE u \in Uids : key = "flags:byAssignee:" \o UidString(u)]
    ELSE {}

Members(z) == {e[1] : e \in z}
Score(z, m) == (CHOOSE e \in z : e[1] = m)[2]
MaxOf(S) == CHOOSE x \in S : \A y \in S : y <= x

\* the members of a sorted set, lowest score first
RevRange_Ascending(z) ==
    LET range == ZRevRange(z)
    IN [k \in 1 .. Len(range) |-> range[Len(range) + 1 - k][1]]

\* getSortedSetRevRange(key, 0, -1): the members, highest score first
RevRange(z) ==
    LET range == ZRevRange(z)
    IN [k \in 1 .. Len(range) |-> range[k][1]]

\* the sorted set of getSortedSetRevIntersect with aggregate MAX
ZInterMax(zs) ==
    LET common == {m \in Members(zs[1]) : \A k \in 1 .. Len(zs) : m \in Members(zs[k])}
    IN {<<m, MaxOf({Score(zs[k], m) : k \in 1 .. Len(zs)})>> : m \in common}

\* the sorted set of getSortedSetRevUnion with aggregate MAX
ZUnionMax(zs) ==
    LET all == UNION {Members(zs[k]) : k \in 1 .. Len(zs)}
    IN {<<m, MaxOf({Score(zs[k], m) : k \in {j \in 1 .. Len(zs) : m \in Members(zs[j])}})>> :
            m \in all}

\* _.intersection(a, b) and _.union(a, b) of arrays without duplicates
Intersection(a, b) == SelectSeq(a, LAMBDA x : \E k \in 1 .. Len(b) : b[k] = x)
Union(a, b) == a \o SelectSeq(b, LAMBDA x : \A k \in 1 .. Len(a) : a[k] # x)

\* lines 139-144: the read of the AND-group
AndIds(d, sets) ==
    LET zs == [k \in 1 .. Len(sets) |-> Index(d, sets[k])]
    IN IF Len(sets) = 1 THEN RevRange(zs[1])
       ELSE IF Len(sets) > 1 THEN RevRange(ZInterMax(zs))
       ELSE <<>>

\* an OR-group that adds its flags to those of the AND-group
OrIds_AlwaysUnion(d, sets, orSets, flagIds) ==
    LET zs == [k \in 1 .. Len(orSets) |-> Index(d, orSets[k])]
    IN Union(flagIds, RevRange(ZUnionMax(zs)))

\* lines 147-154: the read of the OR-group, and what it is combined to
OrIds(d, sets, orSets, flagIds) ==
    LET zs == [k \in 1 .. Len(orSets) |-> Index(d, orSets[k])]
        _flagIds == RevRange(ZUnionMax(zs))
    IN IF Len(sets) > 0 THEN Intersection(flagIds, _flagIds)
       ELSE Union(flagIds, _flagIds)

\* lines 165-181: one entry of the list
FlagView(rec) ==
    [flagId |-> rec.flagId, type |-> rec.type, targetId |-> rec.targetId,
     uid |-> rec.uid, datetime |-> rec.datetime,
     state |-> IF rec.state = NullS THEN "open" ELSE rec.state]

\* lines 158-162: the page is cut out, its flags are asked for
ListPaged(c, flagIds) ==
    LET paged == Paginate(flagIds, c.page, c.perPage)
    IN [next |-> IF paged.flagIds = <<>> THEN "done" ELSE "l_hydrate",
        call |-> [c EXCEPT !.candidates = flagIds,
                           !.pageCount = paged.pageCount,
                           !.flagIds = paged.flagIds,
                           !.hydrate = 1 .. Len(paged.flagIds),
                           !.objs = [k \in 1 .. Len(paged.flagIds) |-> EmptyFlag]]]

\* lines 118-137: the call, up to its first await
ListBegin(p, filters, uid) ==
    /\ pc[p] = "idle"
    /\ LET plan == Plan(filters, uid)
       IN /\ pc' = [pc EXCEPT ![p] = IF Len(plan.sets) > 0 THEN "l_and" ELSE "l_or"]
          /\ call' = [call EXCEPT ![p] =
                [IdleCall EXCEPT !.op = "list", !.uid = uid, !.filters = filters,
                    !.page = EffectivePage(filters.page),
                    !.perPage = EffectivePerPage(filters.perPage),
                    !.sets = plan.sets, !.orSets = plan.orSets,
                    !.warned = plan.warned]]
    /\ UNCHANGED <<db, clock, issued, completed, updates, quota>>

\* lines 140-144: the AND-group is read
ListAnd(p) ==
    /\ pc[p] = "l_and"
    /\ LET c == call[p]
           flagIds == AndIds(db, c.sets)
           fin == IF Len(c.orSets) > 0
                  THEN [next |-> "l_or", call |-> [c EXCEPT !.flagIds = flagIds]]
                  ELSE ListPaged(c, flagIds)
       IN /\ pc' = [pc EXCEPT ![p] = fin.next]
          /\ call' = [call EXCEPT ![p] = fin.call]
    /\ UNCHANGED <<db, clock, issued, completed, updates, quota, pre>>

\* lines 146-160: the OR-group is read and combined
ListOr(p) ==
    /\ pc[p] = "l_or"
    /\ LET c == call[p]
           fin == ListPaged(c, OrIds(db, c.sets, c.orSets, c.flagIds))
       IN /\ pc' = [pc EXCEPT ![p] = fin.next]
          /\ call' = [call EXCEPT ![p] = fin.call]
    /\ UNCHANGED <<db, clock, issued, completed, updates, quota, pre>>

\* lines 162-193: the record of the k-th flag of the page arrives. Without a
\* record flagObj.uid throws, without a type flagObj.type.charAt throws, and
\* the rejection is the result of Promise.all and of list.
ListHydrate(p, k) ==
    /\ pc[p] = "l_hydrate"
    /\ k \in call[p].hydrate
    /\ LET c == call[p]
           rec == db.flag[c.flagIds[k]]
           c1 == [c EXCEPT !.hydrate = @ \ {k}, !.objs[k] = rec]
           last == c1.hydrate = {}
       IN IF rec.type = NullS
          THEN /\ pc' = [pc EXCEPT ![p] = "done"]
               /\ call' = [call EXCEPT ![p] = [c EXCEPT !.err = "TypeError"]]
          ELSE /\ pc' = [pc EXCEPT ![p] = IF last THEN "done" ELSE "l_hydrate"]
               /\ call' = [call EXCEPT ![p] =
                    IF last
                    THEN [c1 EXCEPT !.flags =
                            [j \in 1 .. Len(c1.objs) |-> FlagView(c1.objs[j])]]
                    ELSE c1]
    /\ UNCHANGED <<db, clock, issued, completed, updates, quota, pre>>

\* ------------------------------------------------------------ environment
\* the caller takes the result
Return(p) ==
    /\ pc[p] = "done"
    /\ pc' = [pc EXCEPT ![p] = "idle"]
    /\ call' = [call EXCEPT ![p] = IdleCall]
    /\ UNCHANGED <<db, clock, issued, completed, updates, quota, pre>>

\* time passes
Tick ==
    /\ clock < MaxClock
    /\ clock' = clock + 1
    /\ UNCHANGED <<db, pc, call, issued, completed, updates, quota, pre>>

\* --------------------------------------------------------- specifications
\* calls that do not overlap: one caller, each call runs to its return
Caller == "p1"

\* (1) creates, one after the other
SeqCreate ==
    /\ \E type \in Types, id \in TargetIds, uid \in Uids, reason \in Reasons,
          timestamp \in Timestamps :
            CreateBegin(Caller, type, id, uid, reason, timestamp)
    /\ pre' = db

SeqNext ==
    \/ SeqCreate
    \/ CreateCheck(Caller)
    \/ CreateIncr(Caller)
    \/ CreateSetObject(Caller)
    \/ CreateDatetime(Caller)
    \/ CreateByReporter(Caller)
    \/ CreateByType(Caller)
    \/ CreateHash(Caller)
    \/ CreateByTargetUid(Caller)
    \/ CreateByCid(Caller)
    \/ CreateByPid(Caller)
    \/ CreateUsersFlags(Caller)
    \/ CreateUserField(Caller)
    \/ UpdateRead(Caller)
    \/ \E t \in call[Caller].pend : UpdateTask(Caller, t)
    \/ \E t \in call[Caller].pend : GetRead(Caller, t)
    \/ Return(Caller)
    \/ Tick

SeqSpec == Init /\ [][SeqNext]_vars

\* (2) creates, and changes of state of the flags created, one after the other
LifeTypes == {"post", "user"}
LifeTargetIds == {1}
LifeReporters == {1}
LifeTimestamps == {Null, 1}
LifeUpdaters == {2}

LifeCreate ==
    /\ \E type \in LifeTypes, id \in LifeTargetIds, uid \in LifeReporters,
          reason \in Reasons, timestamp \in LifeTimestamps :
            CreateBegin(Caller, type, id, uid, reason, timestamp)
    /\ pre' = db

LifeUpdate ==
    /\ \E flagId \in FlagIds, uid \in LifeUpdaters, cs \in StateChangesets :
            /\ db.flag[flagId].flagId = flagId
            /\ UpdateBegin(Caller, flagId, uid, cs)
    /\ pre' = db

LifeNext ==
    \/ LifeCreate
    \/ LifeUpdate
    \/ CreateCheck(Caller)
    \/ CreateIncr(Caller)
    \/ CreateSetObject(Caller)
    \/ CreateDatetime(Caller)
    \/ CreateByReporter(Caller)
    \/ CreateByType(Caller)
    \/ CreateHash(Caller)
    \/ CreateByTargetUid(Caller)
    \/ CreateByCid(Caller)
    \/ CreateByPid(Caller)
    \/ CreateUsersFlags(Caller)
    \/ CreateUserField(Caller)
    \/ UpdateRead(Caller)
    \/ \E t \in call[Caller].pend : UpdateTask(Caller, t)
    \/ \E t \in call[Caller].pend : GetRead(Caller, t)
    \/ Return(Caller)

LifeSpec == Init /\ [][LifeNext]_vars

\* (7) creates of several callers, interleaved at every store access
ConcTypes == {"post"}
ConcTargetIds == {1}
ConcReporters == {1, 2}
ConcTimestamps == {Null}

ConcCreate(p) ==
    /\ \E type \in ConcTypes, id \in ConcTargetIds, uid \in ConcReporters,
          reason \in Reasons, timestamp \in ConcTimestamps :
            CreateBegin(p, type, id, uid, reason, timestamp)
    /\ UNCHANGED pre

ConcNext ==
    \/ \E p \in Procs : ConcCreate(p)
    \/ \E p \in Procs : CreateCheck(p)
    \/ \E p \in Procs : CreateIncr(p)
    \/ \E p \in Procs : CreateSetObject(p)
    \/ \E p \in Procs : CreateDatetime(p)
    \/ \E p \in Procs : CreateByReporter(p)
    \/ \E p \in Procs : CreateByType(p)
    \/ \E p \in Procs : CreateHash(p)
    \/ \E p \in Procs : CreateByTargetUid(p)
    \/ \E p \in Procs : CreateByCid(p)
    \/ \E p \in Procs : CreateByPid(p)
    \/ \E p \in Procs : CreateUsersFlags(p)
    \/ \E p \in Procs : CreateUserField(p)
    \/ \E p \in Procs : UpdateRead(p)
    \/ \E p \in Procs : \E t \in call[p].pend : UpdateTask(p, t)
    \/ \E p \in Procs : \E t \in call[p].pend : GetRead(p, t)
    \/ \E p \in Procs : Return(p)

ConcSpec == ConcInit /\ [][ConcNext]_vars

\* (3) creates, and assignments of the flags created, one after the other
AssignTypes == {"post", "user"}
AssignTargetIds == {1}
AssignReporters == {1}
AssignUpdaters == {2}

AssignCreate ==
    /\ \E type \in AssignTypes, id \in AssignTargetIds, uid \in AssignReporters,
          reason \in Reasons :
            CreateBegin(Caller, type, id, uid, reason, Null)
    /\ pre' = db

AssignUpdate ==
    /\ \E flagId \in FlagIds, uid \in AssignUpdaters, cs \in AssigneeChangesets :
            /\ db.flag[flagId].flagId = flagId
            /\ UpdateBegin(Caller, flagId, uid, cs)
    /\ pre' = db

AssignNext ==
    \/ AssignCreate
    \/ AssignUpdate
    \/ CreateCheck(Caller)
    \/ CreateIncr(Caller)
    \/ CreateSetObject(Caller)
    \/ CreateDatetime(Caller)
    \/ CreateByReporter(Caller)
    \/ CreateByType(Caller)
    \/ CreateHash(Caller)
    \/ CreateByTargetUid(Caller)
    \/ CreateByCid(Caller)
    \/ CreateByPid(Caller)
    \/ CreateUsersFlags(Caller)
    \/ CreateUserField(Caller)
    \/ UpdateRead(Caller)
    \/ UpdateAssignable(Caller)
    \/ \E t \in call[Caller].pend : UpdateTask(Caller, t)
    \/ \E t \in call[Caller].pend : GetRead(Caller, t)
    \/ Return(Caller)
    \/ Tick

AssignSpec == Init /\ [][AssignNext]_vars

\* (8) a create, then notes added to the flag while time passes
NoteTypes == {"user"}
NoteTargetIds == {1}
NoteReporters == {1}
NoteAuthors == {1, 2}

NoteCreate ==
    /\ \E type \in NoteTypes, id \in NoteTargetIds, uid \in NoteReporters,
          reason \in Reasons :
            CreateBegin(Caller, type, id, uid, reason, Null)
    /\ pre' = db

NoteAppend ==
    /\ \E flagId \in FlagIds, uid \in NoteAuthors, note \in Notes :
            /\ db.flag[flagId].flagId = flagId
            /\ AppendNoteBegin(Caller, flagId, uid, note, Null)
    /\ pre' = db

NoteNext ==
    \/ NoteCreate
    \/ NoteAppend
    \/ CreateCheck(Caller)
    \/ CreateIncr(Caller)
    \/ CreateSetObject(Caller)
    \/ CreateDatetime(Caller)
    \/ CreateByReporter(Caller)
    \/ CreateByType(Caller)
    \/ CreateHash(Caller)
    \/ CreateByTargetUid(Caller)
    \/ UpdateRead(Caller)
    \/ \E t \in call[Caller].pend : UpdateTask(Caller, t)
    \/ \E t \in call[Caller].pend : GetRead(Caller, t)
    \/ NoteAdd(Caller)
    \/ NoteHistory(Caller)
    \/ Return(Caller)
    \/ Tick

NoteSpec == Init /\ [][NoteNext]_vars

\* (9) creates and updates of the created flags, and lists of the flags
MaxListUpdates == 1
ListTypes == {"user"}
ListTargetIds == {1}
ListReporters == {1, 2}
ListTimestamps == {Null, 1}
ListUpdaters == {2}
ListViewers == {1}
ListChangesets ==
    {cs \in StateChangesets : cs.state = "wip"} \cup
    {cs \in AssigneeChangesets : cs.assignee = 1}

ListFilters ==
    [type : {NoValue, Scalar("user")},
     state : {NoValue, Scalar("open"), Array(<<"wip", "open">>), Array(<<>>)},
     quick : {NoValue, Scalar("mine"), Scalar("all")},
     foo : {NoValue, Scalar("x")},
     page : {NoRaw},
     perPage : {NoRaw}]

ListInit == Start /\ quota = MaxFlagId

ListCreate ==
    /\ \E type \in ListTypes, id \in ListTargetIds, uid \in ListReporters,
          reason \in Reasons, timestamp \in ListTimestamps :
            CreateBegin(Caller, type, id, uid, reason, timestamp)
    /\ pre' = db

ListUpdate ==
    /\ \E flagId \in FlagIds, uid \in ListUpdaters, cs \in ListChangesets :
            /\ db.flag[flagId].flagId = flagId
            /\ updates < MaxListUpdates
            /\ UpdateBegin(Caller, flagId, uid, cs)
    /\ pre' = db

ListCall ==
    /\ \E filters \in ListFilters, uid \in ListViewers : ListBegin(Caller, filters, uid)
    /\ pre' = db

\* time passes between the calls
ListTick == pc[Caller] = "idle" /\ Tick

ListNext ==
    \/ ListCreate
    \/ ListUpdate
    \/ ListCall
    \/ CreateCheck(Caller)
    \/ CreateIncr(Caller)
    \/ CreateSetObject(Caller)
    \/ CreateDatetime(Caller)
    \/ CreateByReporter(Caller)
    \/ CreateByType(Caller)
    \/ CreateHash(Caller)
    \/ CreateByTargetUid(Caller)
    \/ UpdateRead(Caller)
    \/ UpdateAssignable(Caller)
    \/ \E t \in call[Caller].pend : UpdateTask(Caller, t)
    \/ \E t \in call[Caller].pend : GetRead(Caller, t)
    \/ ListAnd(Caller)
    \/ ListOr(Caller)
    \/ \E k \in call[Caller].hydrate : ListHydrate(Caller, k)
    \/ Return(Caller)
    \/ ListTick

ListSpec == ListInit /\ [][ListNext]_vars

\* (10) a create, updates of any flag id, and lists by state
OrphanTypes == {"user"}
OrphanTargetIds == {1}
OrphanReporters == {1}
OrphanUpdaters == {2}
OrphanViewers == {2}
OrphanChangesets == {cs \in StateChangesets : cs.state = "wip"}
OrphanFilters ==
    [type : {NoValue},
     state : {NoValue, Scalar("wip"), Array(<<"wip", "open">>)},
     quick : {NoValue},
     foo : {NoValue},
     page : {NoRaw},
     perPage : {NoRaw}]

OrphanCreate ==
    /\ \E type \in OrphanTypes, id \in OrphanTargetIds, uid \in OrphanReporters,
          reason \in Reasons :
            CreateBegin(Caller, type, id, uid, reason, Null)
    /\ pre' = db

OrphanUpdate ==
    /\ \E flagId \in FlagIds, uid \in OrphanUpdaters, cs \in OrphanChangesets :
            UpdateBegin(Caller, flagId, uid, cs)
    /\ pre' = db

OrphanCall ==
    /\ \E filters \in OrphanFilters, uid \in OrphanViewers :
            ListBegin(Caller, filters, uid)
    /\ pre' = db

OrphanNext ==
    \/ OrphanCreate
    \/ OrphanUpdate
    \/ OrphanCall
    \/ CreateCheck(Caller)
    \/ CreateIncr(Caller)
    \/ CreateSetObject(Caller)
    \/ CreateDatetime(Caller)
    \/ CreateByReporter(Caller)
    \/ CreateByType(Caller)
    \/ CreateHash(Caller)
    \/ CreateByTargetUid(Caller)
    \/ UpdateRead(Caller)
    \/ \E t \in call[Caller].pend : UpdateTask(Caller, t)
    \/ \E t \in call[Caller].pend : GetRead(Caller, t)
    \/ ListAnd(Caller)
    \/ ListOr(Caller)
    \/ \E k \in call[Caller].hydrate : ListHydrate(Caller, k)
    \/ Return(Caller)

OrphanSpec == Init /\ [][OrphanNext]_vars

\* (11) the pagination of list, applied to candidate lists of any length
MaxTotal == 5
Totals == 0 .. MaxTotal \cup {45}
PageTexts ==
    {<<"0">>, <<"1">>, <<"2">>, <<"3">>, <<"4">>, <<"-", "2">>, <<"a">>, <<"2", "a">>}
PerPageTexts ==
    {<<"0">>, <<"1">>, <<"2">>, <<"2", "0">>, <<"-", "5">>, <<"a">>, <<>>}
PageFilters ==
    [type : {NoValue}, state : {NoValue}, quick : {NoValue}, foo : {NoValue},
     page : {NoRaw} \cup {Raw(text) : text \in PageTexts},
     perPage : {NoRaw} \cup {Raw(text) : text \in PerPageTexts}]

\* a list whose candidate ids have been read
PageInit ==
    /\ db = InitDb
    /\ pc = [p \in Procs |-> "idle"]
    /\ clock = 2
    /\ issued = <<>>
    /\ completed = {}
    /\ updates = 0
    /\ pre = InitDb
    /\ quota = 0
    /\ \E filters \in PageFilters, total \in Totals :
            call = [p \in Procs |->
                IF p = Caller
                THEN [IdleCall EXCEPT !.op = "list", !.filters = filters,
                        !.page = EffectivePage(filters.page),
                        !.perPage = EffectivePerPage(filters.perPage),
                        !.candidates = [k \in 1 .. total |-> k]]
                ELSE IdleCall]

\* lines 158-160 and 189-193 on the candidate list
PageApply ==
    /\ pc[Caller] = "idle"
    /\ call[Caller].op = "list"
    /\ LET c == call[Caller]
           paged == Paginate(c.candidates, c.page, c.perPage)
       IN call' = [call EXCEPT ![Caller] =
                [c EXCEPT !.pageCount = paged.pageCount, !.flagIds = paged.flagIds]]
    /\ pc' = [pc EXCEPT ![Caller] = "done"]
    /\ UNCHANGED <<db, clock, issued, completed, updates, quota, pre>>

PageNext == PageApply

PageSpec == PageInit /\ [][PageNext]_vars

\* (12) creates of post flags whose count increments may fail
CounterTypes == {"post"}
CounterTargetIds == {1}
CounterReporters == {1, 2}
CounterTimestamps == {Null, 1}

CounterCreate ==
    /\ \E type \in CounterTypes, id \in CounterTargetIds, uid \in CounterReporters,
          reason \in Reasons, timestamp \in CounterTimestamps :
            CreateBegin(Caller, type, id, uid, reason, timestamp)
    /\ pre' = db

CounterNext ==
    \/ CounterCreate
    \/ CreateCheck(Caller)
    \/ CreateIncr(Caller)
    \/ CreateSetObject(Caller)
    \/ CreateDatetime(Caller)
    \/ CreateByReporter(Caller)
    \/ CreateByType(Caller)
    \/ CreateHash(Caller)
    \/ CreateByTargetUid(Caller)
    \/ CreateByCid(Caller)
    \/ CreateByPid(Caller)
    \/ CreateUsersFlags(Caller)
    \/ CreateUserField(Caller)
    \/ CounterFails(Caller)
    \/ UpdateRead(Caller)
    \/ \E t \in call[Caller].pend : UpdateTask(Caller, t)
    \/ \E t \in call[Caller].pend : GetRead(Caller, t)
    \/ Return(Caller)
    \/ Tick

CounterSpec == ListInit /\ [][CounterNext]_vars

\* (13) every operation of the engine, one call after the other
EngineTypes == {"user"}
EngineTargetIds == {1}
EngineReporters == {1}
EngineUpdaters == {2}
EngineChangesets ==
    {cs \in Changesets : cs.state \in {"wip", Absent} /\ cs.assignee \in {1, Null}}
EngineNotes == {"n1"}
EngineFilters ==
    [type : {NoValue},
     state : {NoValue, Array(<<"wip", "open">>)},
     quick : {NoValue, Scalar("mine")},
     foo : {NoValue},
     page : {NoRaw},
     perPage : {NoRaw}]

EngineCreate ==
    /\ \E type \in EngineTypes, id \in EngineTargetIds, uid \in EngineReporters,
          reason \in Reasons :
            CreateBegin(Caller, type, id, uid, reason, Null)
    /\ pre' = db

EngineUpdate ==
    /\ \E flagId \in completed, uid \in EngineUpdaters, cs \in EngineChangesets :
            UpdateBegin(Caller, flagId, uid, cs)
    /\ pre' = db

EngineAppendNote ==
    /\ \E flagId \in completed, uid \in EngineUpdaters, note \in EngineNotes :
            AppendNoteBegin(Caller, flagId, uid, note, Null)
    /\ pre' = db

EngineList ==
    /\ \E filters \in EngineFilters, uid \in EngineUpdaters :
            ListBegin(Caller, filters, uid)
    /\ pre' = db

EngineGet ==
    /\ \E flagId \in completed : GetBegin(Caller, flagId)
    /\ pre' = db

EngineNext ==
    \/ EngineCreate
    \/ EngineUpdate
    \/ EngineAppendNote
    \/ EngineList
    \/ EngineGet
    \/ CreateCheck(Caller)
    \/ CreateIncr(Caller)
    \/ CreateSetObject(Caller)
    \/ CreateDatetime(Caller)
    \/ CreateByReporter(Caller)
    \/ CreateByType(Caller)
    \/ CreateHash(Caller)
    \/ CreateByTargetUid(Caller)
    \/ UpdateRead(Caller)
    \/ UpdateAssignable(Caller)
    \/ \E t \in call[Caller].pend : UpdateTask(Caller, t)
    \/ \E t \in call[Caller].pend : GetRead(Caller, t)
    \/ NoteAdd(Caller)
    \/ NoteHistory(Caller)
    \/ ListAnd(Caller)
    \/ ListOr(Caller)
    \/ \E k \in call[Caller].hydrate : ListHydrate(Caller, k)
    \/ Return(Caller)
    \/ Tick

EngineSpec == Init /\ [][EngineNext]_vars

\* (14) a create, then updates of the flag by two callers that may overlap
RaceTypes == {"user"}
RaceTargetIds == {1}
RaceReporters == {1}
RaceUpdaters == {2}
RaceChangesets == {cs \in StateChangesets : cs.state \in {"wip", "resolved"}}

RaceCreate ==
    /\ \A q \in Procs : pc[q] = "idle"
    /\ \E type \in RaceTypes, id \in RaceTargetIds, uid \in RaceReporters,
          reason \in Reasons :
            CreateBegin(Caller, type, id, uid, reason, Null)
    /\ UNCHANGED pre

RaceUpdate(p) ==
    /\ \E flagId \in completed, uid \in RaceUpdaters, cs \in RaceChangesets :
            UpdateBegin(p, flagId, uid, cs)
    /\ UNCHANGED pre

RaceNext ==
    \/ RaceCreate
    \/ \E p \in Procs : RaceUpdate(p)
    \/ CreateCheck(Caller)
    \/ CreateIncr(Caller)
    \/ CreateSetObject(Caller)
    \/ CreateDatetime(Caller)
    \/ CreateByReporter(Caller)
    \/ CreateByType(Caller)
    \/ CreateHash(Caller)
    \/ CreateByTargetUid(Caller)
    \/ \E p \in Procs : UpdateRead(p)
    \/ \E p \in Procs : \E t \in call[p].pend : UpdateTask(p, t)
    \/ \E t \in call[Caller].pend : GetRead(Caller, t)
    \/ \E p \in Procs : Return(p)

RaceSpec == Init /\ [][RaceNext]_vars

\* (16) validate, for every answer of its collaborators
ValidateCall ==
    /\ \E type \in Types, id \in TargetIds, uid \in Uids, world \in Worlds :
            ValidateBegin(Caller, type, id, uid, world)
    /\ pre' = db

ValidateNext ==
    \/ ValidateCall
    \/ ValidateReads(Caller)
    \/ ValidateCanEdit(Caller)
    \/ Return(Caller)

ValidateSpec == Init /\ [][ValidateNext]_vars

\* (4) a create, then updates whose changesets carry any of the keys state,
\* assignee and datetime
MixTypes == {"user"}
MixTargetIds == {1}
MixReporters == {1}
MixUpdaters == {2}
MixStates == {"wip", "resolved", "bogus", Absent}
MixChangesets == {cs \in Changesets : cs.state \in MixStates}

MixCreate ==
    /\ \E type \in MixTypes, id \in MixTargetIds, uid \in MixReporters,
          reason \in Reasons :
            CreateBegin(Caller, type, id, uid, reason, Null)
    /\ pre' = db

MixUpdate ==
    /\ \E flagId \in FlagIds, uid \in MixUpdaters, cs \in MixChangesets :
            /\ db.flag[flagId].flagId = flagId
            /\ UpdateBegin(Caller, flagId, uid, cs)
    /\ pre' = db

MixNext ==
    \/ MixCreate
    \/ MixUpdate
    \/ CreateCheck(Caller)
    \/ CreateIncr(Caller)
    \/ CreateSetObject(Caller)
    \/ CreateDatetime(Caller)
    \/ CreateByReporter(Caller)
    \/ CreateByType(Caller)
    \/ CreateHash(Caller)
    \/ CreateByTargetUid(Caller)
    \/ UpdateRead(Caller)
    \/ UpdateAssignable(Caller)
    \/ \E t \in call[Caller].pend : UpdateTask(Caller, t)
    \/ \E t \in call[Caller].pend : GetRead(Caller, t)
    \/ Return(Caller)

MixSpec == Init /\ [][MixNext]_vars

\* (5) a create, then updates, whose record, history and notification tasks
\* may be rejected
FailTypes == {"user"}
FailTargetIds == {1}
FailReporters == {1}
FailUpdaters == {2}
FailChangesets ==
    {[NoChangeset EXCEPT !.state = "wip"], [NoChangeset EXCEPT !.assignee = 1]}

FailCreate ==
    /\ \E type \in FailTypes, id \in FailTargetIds, uid \in FailReporters,
          reason \in Reasons :
            CreateBegin(Caller, type, id, uid, reason, Null)
    /\ pre' = db

FailUpdate ==
    /\ \E flagId \in FlagIds, uid \in FailUpdaters, cs \in FailChangesets :
            /\ db.flag[flagId].flagId = flagId
            /\ UpdateBegin(Caller, flagId, uid, cs)
    /\ pre' = db

FailNext ==
    \/ FailCreate
    \/ FailUpdate
    \/ CreateCheck(Caller)
    \/ CreateIncr(Caller)
    \/ CreateSetObject(Caller)
    \/ CreateDatetime(Caller)
    \/ CreateByReporter(Caller)
    \/ CreateByType(Caller)
    \/ CreateHash(Caller)
    \/ CreateByTargetUid(Caller)
    \/ UpdateRead(Caller)
    \/ UpdateAssignable(Caller)
    \/ \E t \in call[Caller].pend : UpdateTask(Caller, t)
    \/ \E t \in call[Caller].pend : TaskFails(Caller, t)
    \/ \E t \in call[Caller].pend : GetRead(Caller, t)
    \/ Return(Caller)

FailSpec == Init /\ [][FailNext]_vars

\* (6) one caller creates and updates a flag while another caller reads it
Reader == "p2"
ReadTypes == {"user"}
ReadTargetIds == {1}
ReadReporters == {1}
ReadUpdaters == {2}
ReadChangesets ==
    {[NoChangeset EXCEPT !.state = "wip"], [NoChangeset EXCEPT !.assignee = 1]}

ReadCreate ==
    /\ \E type \in ReadTypes, id \in ReadTargetIds, uid \in ReadReporters,
          reason \in Reasons :
            CreateBegin(Caller, type, id, uid, reason, Null)
    /\ pre' = db

ReadUpdate ==
    /\ \E flagId \in FlagIds, uid \in ReadUpdaters, cs \in ReadChangesets :
            /\ db.flag[flagId].flagId = flagId
            /\ UpdateBegin(Caller, flagId, uid, cs)
    /\ pre' = db

\* the reader asks for a flag whose create has returned
ReadGet == \E flagId \in completed : GetBegin(Reader, flagId)

ReadNext ==
    \/ ReadCreate
    \/ ReadUpdate
    \/ ReadGet
    \/ CreateCheck(Caller)
    \/ CreateIncr(Caller)
    \/ CreateSetObject(Caller)
    \/ CreateDatetime(Caller)
    \/ CreateByReporter(Caller)
    \/ CreateByType(Caller)
    \/ CreateHash(Caller)
    \/ CreateByTargetUid(Caller)
    \/ UpdateRead(Caller)
    \/ UpdateAssignable(Caller)
    \/ \E t \in call[Caller].pend : UpdateTask(Caller, t)
    \/ \E p \in Procs : \E t \in call[p].pend : GetRead(p, t)
    \/ \E p \in Procs : Return(p)

ReadSpec == Init /\ [][ReadNext]_vars

\* (15) creates by two callers, and lists by the second of them, overlapping
OverlapFilters ==
    [type : {NoValue, Scalar("post")},
     state : {NoValue},
     quick : {NoValue},
     foo : {NoValue},
     page : {NoRaw},
     perPage : {NoRaw}]

OverlapList ==
    /\ \E filters \in OverlapFilters, uid \in ConcReporters :
            ListBegin(Reader, filters, uid)
    /\ UNCHANGED pre

OverlapNext ==
    \/ ConcNext
    \/ OverlapList
    \/ ListAnd(Reader)
    \/ \E k \in call[Reader].hydrate : ListHydrate(Reader, k)

OverlapSpec == ConcInit /\ [][OverlapNext]_vars

\* ------------------------------------------------------------------ claims
\* the call of the one caller has returned
Returned(op) == pc[Caller] = "done" /\ call[Caller].op = op

\* ids of the flag records of a (type, targetId, reporterUid) triple
FlagsFor(d, type, id, uid) ==
    {i \in FlagIds : /\ d.flag[i].type = type
                     /\ d.flag[i].targetId = id
                     /\ d.flag[i].uid = uid}

\* C1: with creates called one after the other, a create for a triple that has
\* no flag yet, whose target exists and whose reporter may flag, succeeds; a
\* create for a triple that already has a flag fails with already-flagged; and
\* after either exactly one flag record exists for the triple.
C1_SecondCreateIsDuplicate ==
    Returned("create") =>
        LET c == call[Caller]
            before == FlagsFor(pre, c.type, c.id, c.uid)
            after == FlagsFor(db, c.type, c.id, c.uid)
        IN /\ (before = {} /\ c.targetExists /\ c.canFlag) =>
                    (c.err = NullS /\ Cardinality(after) = 1)
           /\ before # {} => (c.err = "already-flagged" /\ after = before
                              /\ Cardinality(after) = 1)

C1_Witness ==
    /\ Returned("create")
    /\ call[Caller].err = "already-flagged"
    /\ call[Caller].targetExists /\ call[Caller].canFlag
    /\ Cardinality(FlagsFor(db, call[Caller].type, call[Caller].id, call[Caller].uid)) = 1

\* C2: in every reachable state of interleaved creates at most one flag record
\* exists for a (type, targetId, reporterUid) triple.
C2_AtMostOneFlagPerTriple ==
    \A i, j \in FlagIds :
        (/\ db.flag[i] # EmptyFlag
         /\ db.flag[i].type = db.flag[j].type
         /\ db.flag[i].targetId = db.flag[j].targetId
         /\ db.flag[i].uid = db.flag[j].uid) => i = j

\* C3: a create that fails a pre-check leaves the whole store (flag records,
\* every index, the dedup set, the history logs and the flag-id counter) as it
\* was before the call.
C3_FailedCreateWritesNothing ==
    (Returned("create") /\ call[Caller].err # NullS) => db = pre

C3_Witness ==
    /\ Returned("create")
    /\ call[Caller].err = "invalid-data"
    /\ call[Caller].type = "post"
    /\ db # InitDb
    /\ db = pre

\* C4: the error of a failed create follows the precedence duplicate, invalid
\* target, no privileges, whatever the later checks returned.
C4_ErrorPrecedence ==
    (Returned("create") /\ call[Caller].type \in FlagTypes) =>
        LET c == call[Caller]
            duplicate == ZIsMember(pre.hash, HashKey(c.type, c.id, c.uid))
        IN /\ duplicate => c.err = "already-flagged"
           /\ (~duplicate /\ ~c.targetExists) => c.err = "invalid-data"
           /\ c.err = "no-privileges" <=> (~duplicate /\ c.targetExists /\ ~c.canFlag)

C4_Witness ==
    /\ Returned("create")
    /\ ZIsMember(pre.hash, HashKey(call[Caller].type, call[Caller].id, call[Caller].uid))
    /\ ~call[Caller].targetExists
    /\ ~call[Caller].canFlag
    /\ call[Caller].err = "already-flagged"

\* C5: flag ids are never reused and grow: the ids the counter hands out are
\* strictly increasing, two creates in progress never hold the same id, every
\* record is stored under its own id, and a create that began after another
\* create returned holds a larger id than that one.
C5_FlagIdsUniqueAndMonotonic ==
    /\ \A i, j \in 1 .. Len(issued) : i < j => issued[i] < issued[j]
    /\ \A p, q \in Procs :
        (p # q /\ call[p].flagId # Null /\ call[p].op = "create"
               /\ call[q].op = "create") => call[p].flagId # call[q].flagId
    /\ \A i \in FlagIds : db.flag[i].flagId \in {Null, i}
    /\ \A p \in Procs :
        (call[p].op = "create" /\ call[p].flagId # Null) =>
            \A i \in call[p].seen : call[p].flagId > i

C5_Witness ==
    /\ \E p, q \in Procs :
        /\ p # q
        /\ call[p].op = "create" /\ call[q].op = "create"
        /\ call[p].flagId # Null /\ call[q].flagId # Null
        /\ pc[p] # "done" /\ pc[q] # "done"
        /\ call[q].seen = {}

\* C6: after a create without a timestamp, the get that create returns shows
\* state open and a history of one entry: made by the reporter, recording the
\* change of state to open, dated at or after the flag's datetime.
C6_CreateThenGet ==
    (Returned("create") /\ call[Caller].err = NullS /\ call[Caller].timestampArg = Null) =>
        LET c == call[Caller]
            v == GetView(c)
        IN /\ v.found
           /\ v.flagId = c.flagId
           /\ v.state = "open"
           /\ Len(c.history) = 1
           /\ v.history[1].uid = c.uid
           /\ v.history[1].fields = [state |-> StateLabel("open"), assignee |-> Null]
           /\ v.history[1].datetime >= v.datetime

C6_Witness ==
    /\ Returned("create")
    /\ call[Caller].err = NullS
    /\ call[Caller].timestampArg = Null
    /\ Len(call[Caller].history) = 1
    /\ GetView(call[Caller]).history[1].datetime > GetView(call[Caller]).datetime

\* C7: a create called with a timestamp makes no update: the history of the
\* new flag is empty, and the record and the indices carry the timestamp.
C7_TimestampedCreateSkipsUpdate ==
    (Returned("create") /\ call[Caller].err = NullS /\ call[Caller].timestampArg # Null) =>
        LET c == call[Caller]
        IN /\ db.history[c.flagId] = {}
           /\ Len(c.history) = 0
           /\ db.flag[c.flagId].datetime = c.timestampArg
           /\ <<c.flagId, c.timestampArg>> \in db.datetime
           /\ <<c.flagId, c.timestampArg>> \in db.byType[c.type]
           /\ <<c.flagId, c.timestampArg>> \in db.byReporter[c.uid]

\* C8: after a successful create of a flag with datetime d the flag id is,
\* with score d, in the chronological index, in the index of its type and of
\* its reporter; in a target-owner index iff an owner was resolved (then the
\* owner's); in a category index iff a category was resolved (then that
\* category's); in a post index iff the type is post (then the target's); and
\* the dedup set maps type:targetId:reporterUid to the flag id.
C8_IndexOnCreate ==
    (Returned("create") /\ call[Caller].err = NullS) =>
        LET c == call[Caller]
            e == <<c.flagId, db.flag[c.flagId].datetime>>
            owner == GetTargetUid(c.type, c.id)
            cid == GetTargetCid(c.type, c.id)
        IN /\ e \in db.datetime
           /\ e \in db.byType[c.type]
           /\ e \in db.byReporter[c.uid]
           /\ \A t \in FlagTypes : ZIsMember(db.byType[t], c.flagId) => t = c.type
           /\ \A u \in Uids : ZIsMember(db.byReporter[u], c.flagId) => u = c.uid
           /\ \A u \in Uids : ZIsMember(db.byTargetUid[u], c.flagId) <=> u = owner
           /\ Truthy(owner) => e \in db.byTargetUid[owner]
           /\ \A k \in Cids : ZIsMember(db.byCid[k], c.flagId) <=> k = cid
           /\ Truthy(cid) => e \in db.byCid[cid]
           /\ \A i \in TargetIds :
                ZIsMember(db.byPid[i], c.flagId) <=> (c.type = "post" /\ i = c.id)
           /\ c.type = "post" => e \in db.byPid[c.id]
           /\ <<HashKey(c.type, c.id, c.uid), c.flagId>> \in db.hash

C8_Witness ==
    /\ Returned("create")
    /\ call[Caller].err = NullS
    /\ call[Caller].type = "post"
    /\ ~Truthy(GetTargetUid("post", call[Caller].id))
    /\ <<call[Caller].flagId, call[Caller].timestamp>> \in db.byPid[call[Caller].id]
    /\ \A u \in Uids : ~ZIsMember(db.byTargetUid[u], call[Caller].flagId)

\* no call is running
AtRest == pc[Caller] \in {"idle", "done"}

\* the per-state indices a flag is a member of
StateIndices(d, i) == {s \in states : ZIsMember(d.byState[s], i)}

\* C9 as claimed: between calls every flag that create has stored is in
\* exactly one per-state index, the one of the state get reports for it.
C9_ExactlyOneStateIndex ==
    AtRest =>
        \A i \in FlagIds :
            db.flag[i].flagId = i =>
                StateIndices(db, i) =
                    {IF db.flag[i].state = NullS THEN "open" ELSE db.flag[i].state}

\* C9 as amended: between calls a flag whose record stores a state is in
\* exactly the per-state index of that state; a flag whose record stores no
\* state (it reads as open) is in no per-state index.
C9_StateIndexFollowsStoredState ==
    AtRest =>
        \A i \in FlagIds :
            db.flag[i].flagId = i =>
                StateIndices(db, i) =
                    IF db.flag[i].state = NullS THEN {} ELSE {db.flag[i].state}

C9_Witness ==
    /\ AtRest
    /\ \E i \in FlagIds :
        /\ db.flag[i].flagId = i
        /\ db.flag[i].state = "resolved"
        /\ StateIndices(db, i) = {"resolved"}

\* C10: an update {state: t} of a flag whose stored state is s, for any two
\* different valid states, succeeds, stores t, puts the flag in the index of
\* t with the update time as score, takes it out of the index of s and leaves
\* the other per-state indices as they were.
C10_AnyTransition ==
    (/\ Returned("update")
     /\ call[Caller].changesetArg.assignee = Null
     /\ call[Caller].changesetArg.datetime = Null
     /\ call[Caller].changesetArg.state \in states
     /\ pre.flag[call[Caller].flagId].state \in states
     /\ pre.flag[call[Caller].flagId].state # call[Caller].changesetArg.state) =>
        LET c == call[Caller]
            s == pre.flag[c.flagId].state
            t == c.changesetArg.state
        IN /\ c.err = NullS
           /\ db.flag[c.flagId].state = t
           /\ <<c.flagId, c.now>> \in db.byState[t]
           /\ c.now <= clock
           /\ ~ZIsMember(db.byState[s], c.flagId)
           /\ \A o \in states \ {s, t} : db.byState[o] = pre.byState[o]

C10_Witness ==
    /\ Returned("update")
    /\ pre.flag[call[Caller].flagId].state = "rejected"
    /\ call[Caller].changesetArg = [NoChangeset EXCEPT !.state = "wip"]
    /\ db.flag[call[Caller].flagId].state = "wip"
    /\ ZIsMember(pre.byState["rejected"], call[Caller].flagId)
    /\ ~ZIsMember(db.byState["rejected"], call[Caller].flagId)

\* what the changeset validator of an update makes of a key, given the record
\* the update found
Eligible(a, rec) ==
    \/ a \in AdminsOrGlobalMods
    \/ rec.type = "post" /\ IsModerator(a, PostCid[rec.targetId])
StateDropped(rec, cs) ==
    cs.state = Absent \/ cs.state = rec.state \/ cs.state \notin states
AssigneeDropped(rec, cs) ==
    cs.assignee = Null \/ cs.assignee = rec.assignee \/ ~Eligible(cs.assignee, rec)

\* C11: an update all of whose changeset fields are dropped (unchanged,
\* invalid or not permitted) returns without an error and leaves the whole
\* store as it was, fires no update hook and sends no notification.
C11_EmptyChangesetIsNoOp ==
    (/\ Returned("update")
     /\ StateDropped(pre.flag[call[Caller].flagId], call[Caller].changesetArg)
     /\ AssigneeDropped(pre.flag[call[Caller].flagId], call[Caller].changesetArg)
     /\ call[Caller].changesetArg.datetime = Null) =>
        /\ db = pre
        /\ ~call[Caller].hookFired
        /\ call[Caller].notified = {}
        /\ call[Caller].err = NullS

C11_Witness ==
    /\ Returned("update")
    /\ call[Caller].changesetArg = [NoChangeset EXCEPT !.state = "bogus", !.assignee = 2]
    /\ pre.flag[call[Caller].flagId].flagId = call[Caller].flagId
    /\ pre.flag[call[Caller].flagId].type = "user"
    /\ db = pre

\* the state get and list report for a record (lines 102 and 166)
ReadState(rec) == IF rec.state = NullS THEN "open" ELSE rec.state

\* an update of an existing flag whose changeset has the state key only
StateOnlyUpdate ==
    /\ Returned("update")
    /\ pre.flag[call[Caller].flagId].flagId = call[Caller].flagId
    /\ call[Caller].changesetArg.state # Absent
    /\ call[Caller].changesetArg.assignee = Null
    /\ call[Caller].changesetArg.datetime = Null

\* C12 as claimed: update {state: s} of a flag that reads as s appends no
\* history, writes nothing to the record and changes no per-state index.
C12_SameReadStateIsDropped ==
    (/\ StateOnlyUpdate
     /\ call[Caller].changesetArg.state = ReadState(pre.flag[call[Caller].flagId])) =>
        /\ call[Caller].err = NullS
        /\ db.history = pre.history
        /\ db.flag = pre.flag
        /\ db.byState = pre.byState

\* C12 as amended: update {state: s} of a flag whose record stores s appends
\* no history, writes nothing to the record and changes no per-state index.
C12_SameStoredStateIsDropped ==
    (/\ StateOnlyUpdate
     /\ call[Caller].changesetArg.state = pre.flag[call[Caller].flagId].state) =>
        /\ call[Caller].err = NullS
        /\ db.history = pre.history
        /\ db.flag = pre.flag
        /\ db.byState = pre.byState

C12_Witness ==
    /\ StateOnlyUpdate
    /\ call[Caller].changesetArg.state = "wip"
    /\ pre.flag[call[Caller].flagId].state = "wip"
    /\ <<call[Caller].flagId, call[Caller].now>> \in pre.byState["wip"]
    /\ db = pre

\* C13: the state a record stores is unset or one of the four valid states;
\* an update that asks for any other state returns without an error and
\* leaves the stored state and every per-state index as they were, whatever
\* else its changeset carries.
C13_InvalidStateIsIgnored ==
    /\ \A i \in FlagIds : db.flag[i].state \in states \cup {NullS}
    /\ (/\ Returned("update")
        /\ call[Caller].changesetArg.state \notin states \cup {Absent}) =>
            /\ call[Caller].err = NullS
            /\ db.flag[call[Caller].flagId].state = pre.flag[call[Caller].flagId].state
            /\ db.byState = pre.byState

C13_Witness ==
    /\ Returned("update")
    /\ call[Caller].changesetArg = [state |-> "bogus", assignee |-> 1, datetime |-> 1]
    /\ pre.flag[call[Caller].flagId].state = "wip"
    /\ db.flag[call[Caller].flagId].state = "wip"
    /\ db.flag[call[Caller].flagId].assignee = 1
    /\ pre.flag[call[Caller].flagId].assignee # 1

\* an update of an existing flag whose changeset has the assignee key only
AssigneeOnlyUpdate ==
    /\ Returned("update")
    /\ pre.flag[call[Caller].flagId].flagId = call[Caller].flagId
    /\ call[Caller].changesetArg.state = Absent
    /\ call[Caller].changesetArg.assignee # Null
    /\ call[Caller].changesetArg.datetime = Null

\* C14: an update whose only change is an assignee who is neither
\* administrator or global moderator nor, for a post flag, moderator of the
\* post's category, leaves the whole store as it was, sends no notification
\* and raises no error.
C14_IneligibleAssigneeIsNoOp ==
    (/\ AssigneeOnlyUpdate
     /\ ~Eligible(call[Caller].changesetArg.assignee, pre.flag[call[Caller].flagId])) =>
        /\ db = pre
        /\ call[Caller].notified = {}
        /\ ~call[Caller].hookFired
        /\ call[Caller].err = NullS

C14_Witness ==
    /\ AssigneeOnlyUpdate
    /\ pre.flag[call[Caller].flagId].type = "user"
    /\ call[Caller].changesetArg.assignee = 2
    /\ IsModerator(2, 1)
    /\ db = pre

\* C15: an update that assigns an eligible assignee a, different from the
\* stored one, stores a in the record, makes the history longer by exactly
\* one entry, which records the acting uid and the assignee change, and puts
\* the flag in the index of a with the update time as score.
C15_EligibleAssigneeIsApplied ==
    (/\ AssigneeOnlyUpdate
     /\ Eligible(call[Caller].changesetArg.assignee, pre.flag[call[Caller].flagId])
     /\ call[Caller].changesetArg.assignee # pre.flag[call[Caller].flagId].assignee) =>
        LET c == call[Caller]
            a == c.changesetArg.assignee
        IN /\ c.err = NullS
           /\ db.flag[c.flagId].assignee = a
           /\ \E t \in c.now .. clock :
                db.history[c.flagId] = pre.history[c.flagId] \cup
                    {<<<<c.uid, [state |-> Absent, assignee |-> a], t>>, t>>}
           /\ Cardinality(db.history[c.flagId]) = Cardinality(pre.history[c.flagId]) + 1
           /\ <<c.flagId, c.now>> \in db.byAssignee[a]
           /\ c.now <= clock

\* C16: no step takes a flag out of a per-assignee index, and between calls
\* a flag is in the index of, and in the list filtered by, every assignee its
\* history records.
C16_AssigneeIndexOnlyGrows ==
    /\ [](AtRest =>
            \A i \in FlagIds, a \in Uids :
                (\E e \in db.history[i] : e[1][2].assignee = a) =>
                    /\ ZIsMember(db.byAssignee[a], i)
                    /\ \E k \in DOMAIN ListByAssignee(db, a) : ListByAssignee(db, a)[k] = i)
    /\ [][\A i \in FlagIds, a \in Uids :
            ZIsMember(db.byAssignee[a], i) => ZIsMember(db.byAssignee[a], i)']_vars

C16_Witness ==
    /\ AssigneeOnlyUpdate
    /\ pre.flag[call[Caller].flagId].assignee = 1
    /\ db.flag[call[Caller].flagId].assignee = 2
    /\ \A a \in {1, 2} :
        \E k \in DOMAIN ListByAssignee(db, a) : ListByAssignee(db, a)[k] = call[Caller].flagId

\* C20: an update notifies exactly the new assignee when its assignee change
\* is accepted and the new assignee is not the acting user, and nobody
\* otherwise; a create notifies no assignee.
C20_NotifiesNewAssigneeOnly ==
    /\ (/\ Returned("update")
        /\ pre.flag[call[Caller].flagId].flagId = call[Caller].flagId) =>
            LET c == call[Caller]
                a == c.changesetArg.assignee
                accepted == ~AssigneeDropped(pre.flag[c.flagId], c.changesetArg)
            IN c.notified = IF accepted /\ a # c.uid THEN {a} ELSE {}
    /\ Returned("create") => call[Caller].notified = {}

C20_Witness ==
    /\ AssigneeOnlyUpdate
    /\ call[Caller].uid = 2
    /\ call[Caller].changesetArg.assignee = 1
    /\ pre.flag[call[Caller].flagId].assignee # 1
    /\ db.flag[call[Caller].flagId].assignee = 1
    /\ call[Caller].notified = {1}

\* C17: a get that runs while an update is under way never returns a record
\* whose state or assignee no entry of the returned history records.
C17_ReadersSeeWholeUpdates ==
    (pc[Reader] = "done" /\ call[Reader].op = "get") =>
        LET c == call[Reader]
        IN /\ c.base.state # NullS =>
                \E k \in 1 .. Len(c.history) : c.history[k][1][2].state = c.base.state
           /\ c.base.assignee # Null =>
                \E k \in 1 .. Len(c.history) : c.history[k][1][2].assignee = c.base.assignee

\* C18: an update one of whose critical tasks (persisting the record,
\* appending the history entry) is rejected returns an error and leaves the
\* record, the per-state and per-assignee indices and the history as they
\* were before the call.
C18_FailedUpdateWritesNothing ==
    (/\ Returned("update")
     /\ call[Caller].failed \cap CriticalTasks # {}) =>
        /\ call[Caller].err # NullS
        /\ db.flag = pre.flag
        /\ db.byState = pre.byState
        /\ db.byAssignee = pre.byAssignee
        /\ db.history = pre.history

\* C19: an update whose notification is rejected, and no other task,
\* returns without an error, with the assignee stored, indexed and recorded
\* in the history.
C19_NotifyFailureIsNotPropagated ==
    (/\ Returned("update")
     /\ call[Caller].failed = {"notify"}) =>
        LET c == call[Caller]
            a == c.changesetArg.assignee
        IN /\ c.err = NullS
           /\ db.flag[c.flagId].assignee = a
           /\ ZIsMember(db.byAssignee[a], c.flagId)
           /\ \E e \in db.history[c.flagId] : e[1][1] = c.uid /\ e[1][2].assignee = a

\* C21: every update of an existing flag that keeps at least one key of its
\* changeset leaves the entries the history had and adds exactly one, which
\* records the acting uid, the keys kept and the update time.
C21_HistoryGrowsByOne ==
    (/\ Returned("update")
     /\ pre.flag[call[Caller].flagId].flagId = call[Caller].flagId
     /\ \/ ~StateDropped(pre.flag[call[Caller].flagId], call[Caller].changesetArg)
        \/ ~AssigneeDropped(pre.flag[call[Caller].flagId], call[Caller].changesetArg)
        \/ call[Caller].changesetArg.datetime # Null) =>
        LET c == call[Caller]
        IN /\ pre.history[c.flagId] \subseteq db.history[c.flagId]
           /\ Cardinality(db.history[c.flagId]) = Cardinality(pre.history[c.flagId]) + 1
           /\ \E e \in db.history[c.flagId] \ pre.history[c.flagId] :
                e[1][1] = c.uid /\ e[2] \in c.now .. clock

\* the post flags stored whose target is owned by user u
PostFlagsOwnedBy(d, u) ==
    {i \in FlagIds : d.flag[i].type = "post" /\ PostUid[d.flag[i].targetId] = u}

\* C30: between creates, for every user the score in users:flags and the
\* flags field of the profile both equal the number of post flags created
\* whose target the user owns; a create of a user flag changes neither.
C30_AggregateCountsAgree ==
    /\ AtRest =>
        \A u \in Uids :
            /\ db.usersFlags[u] = db.userFlagsField[u]
            /\ db.usersFlags[u] = Cardinality(PostFlagsOwnedBy(db, u))
    /\ (Returned("create") /\ call[Caller].type = "user") =>
        /\ db.usersFlags = pre.usersFlags
        /\ db.userFlagsField = pre.userFlagsField

C30_Witness ==
    /\ Returned("create")
    /\ call[Caller].err = NullS
    /\ call[Caller].type = "post"
    /\ call[Caller].targetUid = 2
    /\ db.usersFlags[2] = 1
    /\ db.userFlagsField[2] = 1
    /\ pre.usersFlags[2] = 0

\* C22: every appendNote makes the list getNotes returns for the flag longer
\* by exactly one entry and leaves every entry (uid, content, datetime) it
\* had in place, also when the same user adds the same text again later.
C22_NotesGrowByOne ==
    Returned("appendNote") =>
        LET c == call[Caller]
            before == GetNotes(pre.notes[c.flagId])
            after == GetNotes(db.notes[c.flagId])
        IN /\ Len(after) = Len(before) + 1
           /\ \A k \in 1 .. Len(before) : \E j \in 1 .. Len(after) : after[j] = before[k]

\* the index keys a filter mapping asks for: those of its scalar values and
\* of the quick value mine, and those of the elements of its arrays
IndexNames == {"type", "state"}
AndKeys(filters, uid) ==
    {Prefix(n) \o filters[n].vals[1] : n \in {m \in IndexNames : filters[m].kind = "scalar"}}
    \cup (IF filters.quick = Scalar("mine")
          THEN {"flags:byAssignee:" \o UidString(uid)} ELSE {})
OrKeys(filters) ==
    UNION {{Prefix(n) \o filters[n].vals[k] : k \in 1 .. Len(filters[n].vals)} :
            n \in {m \in IndexNames : filters[m].kind = "array"}}

\* the flag ids that are in all, in some, of the indices of the keys
InAll(d, keys) == {i \in FlagIds : \A key \in keys : i \in Members(Index(d, key))}
InSome(d, keys) == {i \in FlagIds : \E key \in keys : i \in Members(Index(d, key))}

\* the largest score a flag has in the indices of the keys it is a member of
QualifyingScore(d, keys, i) ==
    MaxOf({Score(Index(d, key), i) : key \in {k \in keys : i \in Members(Index(d, k))}})

\* the sequence of flag ids is ordered by that score, largest first
IsDescending(d, keys, ids) ==
    \A k \in 1 .. Len(ids) - 1 :
        QualifyingScore(d, keys, ids[k]) >= QualifyingScore(d, keys, ids[k + 1])

\* C23: the candidate ids of list are the members of flags:datetime when the
\* mapping yields no index, the flags in all AND indices when it yields AND
\* indices only, the flags in some OR index when it yields OR indices only,
\* and the flags in all AND indices and some OR index when it yields both.
C23_CandidateSet ==
    Returned("list") =>
        LET c == call[Caller]
            A == AndKeys(c.filters, c.uid)
            O == OrKeys(c.filters)
            cand == {c.candidates[k] : k \in 1 .. Len(c.candidates)}
        IN /\ Len(c.candidates) = Cardinality(cand)
           /\ cand = IF A = {} /\ O = {} THEN Members(db.datetime)
                     ELSE IF O = {} THEN InAll(db, A)
                     ELSE IF A = {} THEN InSome(db, O)
                     ELSE InAll(db, A) \cap InSome(db, O)

\* a list with an AND-group and an OR-group that keeps one of two flags
C23_Witness ==
    /\ Returned("list")
    /\ AndKeys(call[Caller].filters, call[Caller].uid) # {}
    /\ OrKeys(call[Caller].filters) # {}
    /\ Len(call[Caller].candidates) = 1
    /\ Cardinality(db.datetime) = 2

\* C24: with an AND-group and an OR-group, list orders the candidates by the
\* largest score each has in any of the AND and OR indices it is a member of,
\* largest first.
C24_MixedOrderByQualifyingScore ==
    Returned("list") =>
        LET c == call[Caller]
            A == AndKeys(c.filters, c.uid)
            O == OrKeys(c.filters)
        IN (A # {} /\ O # {}) => IsDescending(db, A \cup O, c.candidates)

\* C25: with AND criteria only, list orders the candidates by the largest
\* score each has over the AND indices (the score of the index when there is
\* one), largest first; with no criteria, by the score of flags:datetime.
C25_AndOrderNewestFirst ==
    Returned("list") =>
        LET c == call[Caller]
            A == AndKeys(c.filters, c.uid)
            O == OrKeys(c.filters)
        IN O = {} =>
            IsDescending(db, IF A = {} THEN {"flags:datetime"} ELSE A, c.candidates)

\* a list by two AND indices of two flags with different scores
C25_Witness ==
    /\ Returned("list")
    /\ OrKeys(call[Caller].filters) = {}
    /\ Cardinality(AndKeys(call[Caller].filters, call[Caller].uid)) = 2
    /\ Len(call[Caller].candidates) = 2
    /\ LET c == call[Caller]
           A == AndKeys(c.filters, c.uid)
       IN QualifyingScore(db, A, c.candidates[1]) > QualifyingScore(db, A, c.candidates[2])

\* the number of candidates of the list whose page is cut out
Total == Len(call[Caller].candidates)

\* C26: for a candidate list of length total, list reports the page count
\* ceil(total / perPage) and returns the candidates at the positions from
\* (page-1)*perPage up to page*perPage; a page after the last is empty; 45
\* candidates by 20 are 3 pages, 5 entries on page 3 and none on page 4.
C26_PageCountAndSlice ==
    Returned("list") =>
        LET c == call[Caller]
            first == (c.page - 1) * c.perPage
            last == IF c.page * c.perPage < Total THEN c.page * c.perPage ELSE Total
        IN /\ c.pageCount * c.perPage >= Total
           /\ (c.pageCount - 1) * c.perPage < Total
           /\ Len(c.flagIds) = IF last > first THEN last - first ELSE 0
           /\ \A k \in 1 .. Len(c.flagIds) : c.flagIds[k] = c.candidates[first + k]
           /\ c.page > c.pageCount => c.flagIds = <<>>
           /\ (Total = 45 /\ c.perPage = 20) =>
                /\ c.pageCount = 3
                /\ c.page = 3 => Len(c.flagIds) = 5
                /\ c.page = 4 => Len(c.flagIds) = 0

\* page 3 of 45 candidates by 20
C26_Witness ==
    /\ Returned("list")
    /\ Total = 45
    /\ call[Caller].filters.page = Raw(<<"3">>)
    /\ call[Caller].filters.perPage = Raw(<<"2", "0">>)
    /\ Len(call[Caller].flagIds) = 5

\* the key is missing, or does not parse, or parses to zero or less
NotPositive(raw) ==
    \/ ~raw.has
    \/ ParseInt(raw.text).nan
    \/ ParseInt(raw.text).n <= 0

\* C27: the page and perPage list uses are at least 1; a missing, unparsable,
\* zero or negative page is page 1, and a missing, unparsable, zero or
\* negative perPage is 20.
C27_NotPositiveIsDefault ==
    Returned("list") =>
        LET c == call[Caller]
        IN /\ c.page >= 1
           /\ c.perPage >= 1
           /\ NotPositive(c.filters.page) => c.page = 1
           /\ NotPositive(c.filters.perPage) => c.perPage = 20

\* what list returns for a mapping when the store does not change meanwhile
ListResult(d, filters, uid) ==
    LET plan == Plan(filters, uid)
        ands == AndIds(d, plan.sets)
        ids == IF Len(plan.orSets) > 0 THEN OrIds(d, plan.sets, plan.orSets, ands)
               ELSE ands
        page == EffectivePage(filters.page)
        paged == Paginate(ids, page, EffectivePerPage(filters.perPage))
    IN [candidates |-> ids, page |-> page, pageCount |-> paged.pageCount,
        flags |-> [k \in 1 .. Len(paged.flagIds) |-> FlagView(d.flag[paged.flagIds[k]])]]

\* C28: a list whose mapping holds a name without a handler raises no error
\* and returns what the list of the mapping without that name returns.
C28_UnknownNameIsSkipped ==
    (Returned("list") /\ call[Caller].filters.foo.kind # "none") =>
        LET c == call[Caller]
        IN /\ c.err = NullS
           /\ [candidates |-> c.candidates, page |-> c.page,
               pageCount |-> c.pageCount, flags |-> c.flags]
                = ListResult(db, [c.filters EXCEPT !.foo = NoValue], c.uid)

\* a list with a name without a handler that returns flags
C28_Witness ==
    /\ Returned("list")
    /\ call[Caller].filters.foo.kind # "none"
    /\ call[Caller].warned = <<"foo">>
    /\ Len(call[Caller].flags) = 2

\* C29: list raises no error, and every flag of its page whose record can be
\* hydrated is among the entries it returns.
C29_HydrationFailureIsContained ==
    Returned("list") =>
        LET c == call[Caller]
        IN /\ c.err = NullS
           /\ \A k \in 1 .. Len(c.flagIds) :
                db.flag[c.flagIds[k]].type # NullS =>
                    \E j \in 1 .. Len(c.flags) : c.flags[j].flagId = c.flagIds[k]

\* C31: a create whose count increment failed still returns without an error,
\* has appended the history entry of a flag made without a timestamp, and
\* returns the flag.
C31_CounterFailureDoesNotBlockCreate ==
    (Returned("create") /\ call[Caller].failed # {}) =>
        LET c == call[Caller]
        IN /\ c.err = NullS
           /\ c.timestampArg = Null => db.history[c.flagId] # {}
           /\ GetView(c).found
           /\ GetView(c).flagId = c.flagId

\* C32: every flag whose create has completed has its record, is a member of
\* flags:datetime, of the index of its type and of the index of its reporter,
\* and its key of type, target and reporter is in flags:hash, in every state
\* that create, update, appendNote, list and get calls reach afterwards.
C32_FlagsAreNeverDeleted ==
    \A i \in completed :
        LET rec == db.flag[i]
        IN /\ rec.flagId = i
           /\ rec.type \in FlagTypes
           /\ rec.uid \in Uids
           /\ ZIsMember(db.datetime, i)
           /\ ZIsMember(db.byType[rec.type], i)
           /\ ZIsMember(db.byReporter[rec.uid], i)
           /\ ZIsMember(db.hash, HashKey(rec.type, rec.targetId, rec.uid))

\* a created flag that was updated and annotated is listed
C32_Witness ==
    /\ Returned("list")
    /\ \E i \in completed :
            /\ db.notes[i] # {}
            /\ Cardinality(db.history[i]) >= 3
            /\ db.flag[i].state = "wip"
            /\ \E k \in 1 .. Len(call[Caller].flags) : call[Caller].flags[k].flagId = i

\* two updates of one flag that asked for different valid states have both
\* completed
BothUpdated ==
    /\ \A p \in Procs : pc[p] = "done" /\ call[p].op = "update"
    /\ \A p, q \in Procs : call[p].flagId = call[q].flagId
    /\ \A p \in Procs : call[p].changesetArg.state \in states
    /\ \E p, q \in Procs : call[p].changesetArg.state # call[q].changesetArg.state

\* C33: when two updates of one flag that asked for different valid states
\* have both completed, however their steps interleaved, the flag is a member
\* of exactly one per-state index, the one of the state its record stores.
C33_ConcurrentUpdatesLeaveOneStateIndex ==
    BothUpdated =>
        LET i == call[Caller].flagId
        IN StateIndices(db, i) = {db.flag[i].state}

\* C34: an update of a flag id that no create has issued writes nothing: no
\* record, no entry of a per-state or per-assignee index, no history.
C34_UpdateOfUnknownIdWritesNothing ==
    (Returned("update") /\ \A k \in 1 .. Len(issued) : issued[k] # call[Caller].flagId) =>
        LET i == call[Caller].flagId
        IN /\ db.flag[i] = EmptyFlag
           /\ db.byState = pre.byState
           /\ db.byAssignee = pre.byAssignee
           /\ db.history[i] = {}

\* C35: an update of a flag leaves the flagId, type, targetId, uid,
\* description and datetime of its record as they were, whatever keys its
\* changeset has.
C35_UpdateKeepsImmutableFields ==
    (Returned("update") /\ pre.flag[call[Caller].flagId].flagId = call[Caller].flagId) =>
        LET old == pre.flag[call[Caller].flagId]
            new == db.flag[call[Caller].flagId]
        IN /\ new.flagId = old.flagId
           /\ new.type = old.type
           /\ new.targetId = old.targetId
           /\ new.uid = old.uid
           /\ new.description = old.description
           /\ new.datetime = old.datetime

\* the flag ids in the indices that create writes
IndexedIds ==
    Members(db.datetime)
    \cup UNION {Members(db.byType[t]) : t \in FlagTypes}
    \cup UNION {Members(db.byReporter[u]) : u \in Uids}
    \cup UNION {Members(db.byTargetUid[u]) : u \in Uids}
    \cup UNION {Members(db.byCid[c]) : c \in Cids}
    \cup UNION {Members(db.byPid[i]) : i \in TargetIds}

\* C36: at every point of overlapping creates, every flag id in the
\* chronological, per-type, per-reporter, per-target-owner, per-category or
\* per-post index has its record, and a list that overlaps them raises no
\* error.
C36_IndexedIdsHaveRecords ==
    /\ \A i \in IndexedIds : db.flag[i].flagId = i /\ db.flag[i].type \in FlagTypes
    /\ \A p \in Procs : call[p].op = "list" => call[p].err = NullS

\* a list has read the record of a flag whose create is still writing indices
C36_Witness ==
    /\ pc[Reader] = "done"
    /\ call[Reader].op = "list"
    /\ Len(call[Reader].flags) >= 1
    /\ pc[Caller] \in {"c_byReporter", "c_byType", "c_hash", "c_byTargetUid", "c_byCid",
                       "c_byPid"}
    /\ \E k \in 1 .. Len(call[Reader].flags) :
            call[Reader].flags[k].flagId = call[Caller].flagId

\* a list whose mapping has the quick key only
QuickOnly ==
    /\ Returned("list")
    /\ call[Caller].filters.quick.kind # "none"
    /\ call[Caller].filters.type.kind = "none"
    /\ call[Caller].filters.state.kind = "none"
    /\ call[Caller].filters.foo.kind = "none"

\* C37: list({quick: 'mine'}, uid) returns exactly the flags of the
\* per-assignee index of uid, and a list whose only key is quick with another
\* value returns the flags of flags:datetime, newest first.
C37_QuickMineIsOwnAssigneeIndex ==
    QuickOnly =>
        LET c == call[Caller]
            returned == {c.flags[k].flagId : k \in 1 .. Len(c.flags)}
        IN /\ c.err = NullS
           /\ Len(c.flags) = Cardinality(returned)
           /\ IF c.filters.quick = Scalar("mine")
              THEN returned = Members(db.byAssignee[c.uid])
              ELSE /\ returned = Members(db.datetime)
                   /\ IsDescending(db, {"flags:datetime"}, c.candidates)

\* of two flags, the list of mine returns the one assigned to the caller
C37_Witness ==
    /\ QuickOnly
    /\ call[Caller].filters.quick = Scalar("mine")
    /\ Len(call[Caller].flags) = 1
    /\ Cardinality(db.datetime) = 2

\* C38: validate writes nothing and rejects with the first error that applies,
\* in the order: invalid data for a type other than post and user and for a
\* target that does not exist, target deleted for a deleted target, no-user
\* for a missing reporter, user-banned for a banned reporter.
C38_ValidateErrorOrder ==
    Returned("validate") =>
        LET c == call[Caller]
            w == c.world
        IN /\ db = pre
           /\ IF c.type \notin FlagTypes \/ w.target = "missing"
              THEN c.err = "invalid-data"
              ELSE IF w.target = "deleted" THEN c.err = "post-deleted"
              ELSE IF w.reporter = "missing" THEN c.err = "no-user"
              ELSE IF w.reporter = "banned" THEN c.err = "user-banned"
              ELSE TRUE

====
